---- MODULE Spec2Model ----
(***************************************************************************)
(* Model of measure_innersource.main: team-boundary resolution,            *)
(* contributor classification, chunked ingestion of pull requests and      *)
(* issues, and the collaboration ratio handed to the report writer.        *)
(*                                                                         *)
(* A login is a sequence of one-character strings, so that letter case     *)
(* and the "[bot]" marker are things the model computes with.  Python's    *)
(* None and the empty list are both the empty sequence.  A dict that the   *)
(* code iterates over (org_data) is a sequence of entries in insertion     *)
(* order; a dict that is only read by key is a function.                   *)
(***************************************************************************)
EXTENDS Integers, Sequences, FiniteSets, TLC

(* ------------------------------ bounds -------------------------------- *)

MaxOrg ==
    3

MaxContributors ==
    2

MaxStream ==
    5

MaxChunk ==
    3

MaxLiveStream ==
    3

MaxCalls ==
    3

(* ------------------------------ logins -------------------------------- *)

None ==
    <<>>

a ==
    <<"a">>

A_upper ==
    <<"A">>

m ==
    <<"m">>

d ==
    <<"d">>

e ==
    <<"e">>

f ==
    <<"f">>

x ==
    <<"x">>

y ==
    <<"y">>

z ==
    <<"z">>

BOT_MARKER ==
    <<"[", "b", "o", "t", "]">>

ci_bot ==
    <<"c", "i">> \o BOT_MARKER

bot_plain ==
    <<"b", "o", "t">>

(* ------------------------- Python primitives -------------------------- *)

Range(s) ==
    {s[i] : i \in 1..Len(s)}

\* sub in s, for Python strings
IsSubstring(sub, s) ==
    \E i \in 0..(Len(s) - Len(sub)) :
        \A j \in 1..Len(sub) : s[i + j] = sub[j]

\* str.lower() on the alphabet the logins use
LowerChar(c) ==
    CASE c = "A" -> "a"
      [] c = "M" -> "m"
      [] c = "X" -> "x"
      [] OTHER -> c

Lower(s) ==
    [i \in 1..Len(s) |-> LowerChar(s[i])]

\* list(set(l)): the distinct elements of l, in an order the hash decides
Orderings(S) ==
    {p \in [1..Cardinality(S) -> S] : \A i, j \in 1..Cardinality(S) : i # j => p[i] # p[j]}

\* d.get(k, default) on a dict held as a function
Get(dict, k, default) ==
    IF k \in DOMAIN dict THEN dict[k] ELSE default

\* d[k] = d.get(k, 0) + 1
Increment(dict, k) ==
    IF k \in DOMAIN dict
    THEN [dict EXCEPT ![k] = @ + 1]
    ELSE [j \in DOMAIN dict \cup {k} |-> IF j = k THEN 1 ELSE dict[j]]

RECURSIVE SumOver(_, _)
SumOver(dict, keys) ==
    IF keys = {} THEN 0
    ELSE LET k == CHOOSE k \in keys : TRUE
         IN dict[k] + SumOver(dict, keys \ {k})

\* sum(d.values())
SumValues(dict) ==
    SumOver(dict, DOMAIN dict)

(* ----------------------------- org data ------------------------------- *)

\* org_data as loaded by json.load: entries in file order, keys distinct
Entry(user, manager) ==
    [user |-> user, manager |-> manager]

Keys(org) ==
    {org[i].user : i \in 1..Len(org)}

\* the membership test left out
InOrgData_Always(org, login) ==
    TRUE

\* the membership test taking a manager for an entry
InOrgData_OrManager(org, login) ==
    \E i \in 1..Len(org) : org[i].user = login \/ org[i].manager = login

\* key in org_data (plain dict: exact, case-sensitive match)
InOrgData(org, login) ==
    login \in Keys(org)

\* org_data[key]["manager"]; the callers test the key first
ManagerOf(org, login) ==
    IF \E i \in 1..Len(org) : org[i].user = login
    THEN org[CHOOSE i \in 1..Len(org) : org[i].user = login].manager
    ELSE None

(* ----------------- team boundary (main, inferred mode) ---------------- *)

\* manager_to_reports[manager]: the users listed under it, in org order
RECURSIVE DirectReports(_, _)
DirectReports(org, manager) ==
    IF org = <<>> THEN <<>>
    ELSE IF Head(org).manager = manager
         THEN <<Head(org).user>> \o DirectReports(Tail(org), manager)
         ELSE DirectReports(Tail(org), manager)

\* the loop over user_to_manager.items(): one pass, in org order
RECURSIVE AddReportsOfMembers(_, _)
AddReportsOfMembers(org, team) ==
    IF org = <<>> THEN team
    ELSE IF Head(org).manager \in Range(team) /\ Head(org).user \notin Range(team)
         THEN AddReportsOfMembers(Tail(org), Append(team, Head(org).user))
         ELSE AddReportsOfMembers(Tail(org), team)

\* the manager's own manager taken into the seed
InferredTeam_WithManagersManager(org, author) ==
    LET manager == ManagerOf(org, author)
        above == IF manager \in Keys(org) THEN <<ManagerOf(org, manager)>> ELSE <<>>
        seed == <<author, manager>> \o above \o DirectReports(org, manager)
    IN AddReportsOfMembers(org, seed)

\* team_members_that_own_the_repo just before list(set(...))
InferredTeam(org, author) ==
    LET manager == ManagerOf(org, author)
        seed == <<author, manager>> \o DirectReports(org, manager)
    IN AddReportsOfMembers(org, seed)

\* a roster of one name taken for no roster
ExplicitlySpecified_MoreThanOne(team) ==
    Len(team) > 1

\* if owning_team: (None and [] are both falsy)
ExplicitlySpecified(team) ==
    team # None

(* -------------------------- classification ---------------------------- *)

\* the team-membership half of the test left out
IsInnersource_BotsOnly(login, team) ==
    ~IsSubstring(BOT_MARKER, login)

\* the test that appends a contributor to innersource_contributors
IsInnersource(login, team) ==
    login \notin Range(team) /\ ~IsSubstring(BOT_MARKER, login)

(* ----------------------------- ingestion ------------------------------ *)

\* hasattr(item.author, "login") / hasattr(item.user, "login")
HasLogin(author) ==
    author # None

\* the counting loops: one pass over a list of items
RECURSIVE CountAuthors(_, _)
CountAuthors(items, counts) ==
    IF items = <<>> THEN counts
    ELSE IF HasLogin(Head(items))
         THEN CountAuthors(Tail(items), Increment(counts, Head(items)))
         ELSE CountAuthors(Tail(items), counts)

\* a chunk cut short by StopIteration is thrown away
RECURSIVE NextChunk_DropsShortChunk(_, _, _, _, _)
NextChunk_DropsShortChunk(stream, pos, size, acc, calls) ==
    IF Len(acc) = size
    THEN [chunk |-> acc, pos |-> pos, calls |-> calls]
    ELSE IF pos < Len(stream)
         THEN NextChunk_DropsShortChunk(stream, pos + 1, size,
                                        Append(acc, stream[pos + 1]), calls + 1)
         ELSE [chunk |-> <<>>, pos |-> pos, calls |-> calls + 1]

\* one item more than the chunk size taken from the iterator
RECURSIVE NextChunk_OneMore(_, _, _, _, _)
NextChunk_OneMore(stream, pos, size, acc, calls) ==
    IF Len(acc) = size + 1
    THEN [chunk |-> acc, pos |-> pos, calls |-> calls]
    ELSE IF pos < Len(stream)
         THEN NextChunk_OneMore(stream, pos + 1, size,
                                Append(acc, stream[pos + 1]), calls + 1)
         ELSE [chunk |-> acc, pos |-> pos, calls |-> calls + 1]

\* for _ in range(chunk_size): chunk.append(next(iterator)), leaving the
\* loop at StopIteration.  pos is the number of items the iterator has
\* yielded; calls counts the next() calls made.
RECURSIVE NextChunk(_, _, _, _, _)
NextChunk(stream, pos, size, acc, calls) ==
    IF Len(acc) = size
    THEN [chunk |-> acc, pos |-> pos, calls |-> calls]
    ELSE IF pos < Len(stream)
         THEN NextChunk(stream, pos + 1, size, Append(acc, stream[pos + 1]), calls + 1)
         ELSE [chunk |-> acc, pos |-> pos, calls |-> calls + 1]

\* every exception taken for the end of the stream
Caught_Whatever(exception) ==
    TRUE

\* except StopIteration: the one exception the chunk loops handle
Caught(exception) ==
    exception = "StopIteration"

\* the loop left on a chunk of one item as well
LoopEnds_AtOneItem(c) ==
    Len(c) <= 1

\* if not chunk: break
LoopEnds(c) ==
    c = <<>>

(* ------------------------------- totals ------------------------------- *)

\* the issue counts left out of the total
TotalFor_WithoutIssues(login, commitCounts, prCounts, issueCounts) ==
    Get(commitCounts, login, 0) + Get(prCounts, login, 0)

\* commit + pull-request + issue count of one login, 0 where absent
TotalFor(login, commitCounts, prCounts, issueCounts) ==
    Get(commitCounts, login, 0) + Get(prCounts, login, 0) + Get(issueCounts, login, 0)

\* the entry of a login added to at each of its occurrences, never reset
ContributionCounts_Accumulating(logins, commitCounts, prCounts, issueCounts) ==
    [l \in Range(logins) |->
        Cardinality({i \in DOMAIN logins : logins[i] = l})
            * TotalFor(l, commitCounts, prCounts, issueCounts)]

\* the two counting loops: one dict entry per distinct list element
ContributionCounts(logins, commitCounts, prCounts, issueCounts) ==
    [l \in Range(logins) |-> TotalFor(l, commitCounts, prCounts, issueCounts)]

\* the team total alone as the denominator
Ratio_OverTeamTotal(innersourceCounts, teamCounts) ==
    IF SumValues(teamCounts) > 0
    THEN [num |-> SumValues(innersourceCounts), den |-> SumValues(teamCounts), divided |-> TRUE]
    ELSE [num |-> 0, den |-> 1, divided |-> FALSE]

\* the ratio computed as a percentage
Ratio_AsPercentage(innersourceCounts, teamCounts) ==
    IF SumValues(innersourceCounts) + SumValues(teamCounts) > 0
    THEN [num |-> 100 * SumValues(innersourceCounts),
          den |-> SumValues(innersourceCounts) + SumValues(teamCounts), divided |-> TRUE]
    ELSE [num |-> 0, den |-> 1, divided |-> FALSE]

\* innersource_ratio as the fraction num/den; the integer 0 is 0/1
Ratio(innersourceCounts, teamCounts) ==
    LET total_contributions == SumValues(innersourceCounts) + SumValues(teamCounts)
    IN IF total_contributions > 0
       THEN [num |-> SumValues(innersourceCounts), den |-> total_contributions, divided |-> TRUE]
       ELSE [num |-> 0, den |-> 1, divided |-> FALSE]

(* ------------------------------ strings ------------------------------- *)

\* a string is a sequence of one-character strings
Digits ==
    <<"0", "1", "2", "3", "4", "5", "6", "7", "8", "9">>

IsDigit(c) ==
    c \in Range(Digits)

DigitValue(c) ==
    (CHOOSE i \in 1..Len(Digits) : Digits[i] = c) - 1

\* str.strip() with no argument, over the whitespace of the input alphabet
RECURSIVE Strip(_)
Strip(s) ==
    IF s = <<>> THEN s
    ELSE IF Head(s) = " " THEN Strip(Tail(s))
    ELSE IF s[Len(s)] = " " THEN Strip(SubSeq(s, 1, Len(s) - 1))
    ELSE s

\* the value of a run of digits, single underscores between digits allowed
RECURSIVE DigitsValue(_, _)
DigitsValue(s, acc) ==
    IF s = <<>> THEN acc
    ELSE IF Head(s) = "_" THEN DigitsValue(Tail(s), acc)
    ELSE DigitsValue(Tail(s), 10 * acc + DigitValue(Head(s)))

IsDigitRun(s) ==
    /\ s # <<>>
    /\ IsDigit(s[1])
    /\ IsDigit(s[Len(s)])
    /\ \A i \in 1..Len(s) : IsDigit(s[i]) \/ (s[i] = "_" /\ i > 1 /\ IsDigit(s[i - 1]))

\* int(s): ok is FALSE where Python raises ValueError
ParseInt(s) ==
    LET t == Strip(s)
        signed == t # <<>> /\ Head(t) \in {"+", "-"}
        body == IF signed THEN Tail(t) ELSE t
    IN IF IsDigitRun(body)
       THEN [ok |-> TRUE,
             value |-> IF signed /\ Head(t) = "-" THEN 0 - DigitsValue(body, 0)
                       ELSE DigitsValue(body, 0)]
       ELSE [ok |-> FALSE, value |-> 0]

\* str(n) of a natural number
RECURSIVE FormatNat(_)
FormatNat(n) ==
    IF n < 10 THEN <<Digits[n + 1]>>
    ELSE Append(FormatNat(n \div 10), Digits[(n % 10) + 1])

Contains(s, c) ==
    \E i \in 1..Len(s) : s[i] = c

\* s.split(c, 1) of a string that contains c
SplitOnce(s, c) ==
    LET i == CHOOSE k \in 1..Len(s) : s[k] = c /\ \A j \in 1..(k - 1) : s[j] # c
    IN <<SubSeq(s, 1, i - 1), SubSeq(s, i + 1, Len(s))>>

(* ------------------------ config.get_env_vars ------------------------- *)

MIN_CHUNK_SIZE ==
    10

DEFAULT_CHUNK_SIZE ==
    100

\* os.environ.get(name, default)
Getenv(env, name, default) ==
    IF name \in DOMAIN env THEN env[name] ELSE default

\* get_int_env_var: <<n>> for the integer n, None for unset, blank or not an integer
get_int_env_var(env, name) ==
    LET env_var == Getenv(env, name, None)
    IN IF name \notin DOMAIN env \/ Strip(env_var) = <<>> THEN None
       ELSE IF ParseInt(env_var).ok THEN <<ParseInt(env_var).value>>
       ELSE None

\* the truth value of an optional integer: None and 0 are false
TruthyInt(v) ==
    v # None /\ v[1] # 0

\* the test in front of the first ValueError of get_env_vars
AppCredentialsIncomplete(gh_app_id, gh_app_private_key_bytes, gh_app_installation_id) ==
    /\ TruthyInt(gh_app_id)
    /\ gh_app_private_key_bytes = <<>> \/ ~TruthyInt(gh_app_installation_id)

\* the test in front of "GH_TOKEN environment variable not set"
AuthenticationMissing(gh_app_id, gh_app_private_key_bytes, gh_app_installation_id, gh_token) ==
    /\ ~TruthyInt(gh_app_id)
    /\ gh_app_private_key_bytes = <<>>
    /\ ~TruthyInt(gh_app_installation_id)
    /\ gh_token = <<>>

\* the chunk size taken as parsed, without the minimum
ChunkSize_WithoutFloor(chunk_size_str) ==
    LET parsed == ParseInt(chunk_size_str)
    IN IF parsed.ok THEN parsed.value ELSE DEFAULT_CHUNK_SIZE

\* int(chunk_size_str), max(chunk_size, MIN_CHUNK_SIZE); DEFAULT_CHUNK_SIZE on ValueError
ChunkSize(chunk_size_str) ==
    LET parsed == ParseInt(chunk_size_str)
    IN IF parsed.ok
       THEN IF parsed.value > MIN_CHUNK_SIZE THEN parsed.value ELSE MIN_CHUNK_SIZE
       ELSE DEFAULT_CHUNK_SIZE

\* the EnvVars that get_env_vars builds; report_title, output_file, ghe and the
\* two boolean flags are read and passed through
EnvVars(env) ==
    LET repository == Getenv(env, "REPOSITORY", <<>>)
        parts == SplitOnce(repository, "/")
    IN [gh_app_id |-> get_int_env_var(env, "GH_APP_ID"),
        gh_app_installation_id |-> get_int_env_var(env, "GH_APP_INSTALLATION_ID"),
        gh_app_private_key_bytes |-> Getenv(env, "GH_APP_PRIVATE_KEY", <<>>),
        gh_token |-> Getenv(env, "GH_TOKEN", None),
        owner |-> parts[1],
        repo |-> parts[2],
        chunk_size |-> ChunkSize(Getenv(env, "CHUNK_SIZE", FormatNat(DEFAULT_CHUNK_SIZE)))]

(* --------------------- the report file on disk ------------------------ *)

GITHUB_ISSUE_BODY_MAX_CHARS ==
    65535

\* the position of the last c in s, 0 when there is none
LastIndexOf(s, c) ==
    IF Contains(s, c) THEN CHOOSE i \in 1..Len(s) : s[i] = c /\ \A j \in (i + 1)..Len(s) : s[j] # c
    ELSE 0

\* Path(path).name: what follows the last "/"
PathName(path) ==
    SubSeq(path, LastIndexOf(path, "/") + 1, Len(path))

\* Path(path).stem: the name without its last suffix; a dot that opens or
\* closes the name starts no suffix
Stem(path) ==
    LET name == PathName(path)
        i == LastIndexOf(name, ".")
    IN IF 1 < i /\ i < Len(name) THEN SubSeq(name, 1, i - 1) ELSE name

\* file_path[:-3]
DropLastThree(file_path) ==
    SubSeq(file_path, 1, Len(file_path) - 3)

\* f"{file_path[:-3]}_{i}.md"
PartName(file_path, i) ==
    DropLastThree(file_path) \o <<"_">> \o FormatNat(i) \o <<".", "m", "d">>

\* f"{file_name_without_extension}_full.md"
FullName(stem) ==
    stem \o <<"_", "f", "u", "l", "l", ".", "m", "d">>

\* f"{file_name_without_extension}_0.md"
FirstPartName(stem) ==
    stem \o <<"_", "0", ".", "m", "d">>

\* output_file if output_file else "innersource_report.md"
OutputFileName(output_file) ==
    IF output_file # <<>> THEN output_file
    ELSE <<"i", "n", "n", "e", "r", "s", "o", "u", "r", "c", "e", "_",
           "r", "e", "p", "o", "r", "t", ".", "m", "d">>

\* a file content is the characters from..to-1 of a text
Text(text, from, to) ==
    [text |-> text, from |-> from, to |-> to]

Length(content) ==
    content.to - content.from

\* markdown_too_large_for_issue_body
markdown_too_large_for_issue_body(fs, file_path, max_char_count) ==
    Length(fs[file_path]) > max_char_count

\* file_contents[i : i + max_char_count] for i in range(0, len, max_char_count)
Slices(content, max_char_count) ==
    [k \in 1..((Length(content) + max_char_count - 1) \div max_char_count) |->
        Text(content.text,
             content.from + (k - 1) * max_char_count,
             IF content.from + k * max_char_count < content.to
             THEN content.from + k * max_char_count ELSE content.to)]

\* open(name, "w").write(content)
WriteFile(fs, name, content) ==
    [n \in DOMAIN fs \cup {name} |-> IF n = name THEN content ELSE fs[n]]

\* the parts written one after the other, part k under the index k - 1
RECURSIVE WriteParts(_, _, _, _)
WriteParts(fs, file_path, parts, k) ==
    IF k > Len(parts) THEN fs
    ELSE WriteParts(WriteFile(fs, PartName(file_path, k - 1), parts[k]), file_path, parts, k + 1)

\* split_markdown_file
split_markdown_file(fs, file_path, max_char_count) ==
    WriteParts(fs, file_path, Slices(fs[file_path], max_char_count), 1)

\* shutil.move of a file that exists, to a name in a directory that exists
Move(fs, src, dst) ==
    [n \in (DOMAIN fs \ {src}) \cup {dst} |-> IF n = dst THEN fs[src] ELSE fs[n]]

(* -------------------- markdown_writer.write_to_markdown --------------- *)

\* the parameters in the signature of write_to_markdown
Parameters ==
    {"report_title", "output_file", "innersource_ratio", "repo_data",
     "original_commit_author", "original_commit_author_manager",
     "team_members_that_own_the_repo", "all_contributors", "innersource_contributors",
     "innersource_contribution_counts", "team_member_contribution_counts"}

\* a keyword that is no parameter is a TypeError at the call
Accepted(keywords) ==
    keywords \subseteq Parameters

\* a line is the sequence of the literals and the values formatted into it
RepositoryLine(repo_data) ==
    <<"## Repository: ", repo_data>>

\* f"{innersource_ratio:.2%}"
RatioLine(innersource_ratio) ==
    <<"### InnerSource Ratio: ", [value |-> innersource_ratio, format |-> ".2%"]>>

\* the one header line written after the ratio
OwnershipLine(author, manager) ==
    <<"### Original Commit Author: ", author, " (Manager: ", manager, ")">>

RECURSIVE Bullets(_)
Bullets(names) ==
    IF names = <<>> THEN <<>>
    ELSE << <<"- ", Head(names)>> >> \o Bullets(Tail(names))

\* a heading, then one bullet per name, or the line for an empty or missing list
ListSection(heading, names, nothing) ==
    << <<heading>> >> \o (IF names # <<>> THEN Bullets(names) ELSE << <<nothing>> >>)

CountLine(item) ==
    <<"- ", item[1], ": ", item[2], " contributions">>

RECURSIVE CountLines(_)
CountLines(items) ==
    IF items = <<>> THEN <<>>
    ELSE <<CountLine(Head(items))>> \o CountLines(Tail(items))

\* the innersource counts: every entry of the dict is printed
InnersourceCountSection(items) ==
    << <<"## Innersource Contribution Counts:">> >> \o
    (IF items # <<>> THEN CountLines(items)
     ELSE << <<"No InnerSource contribution counts available.">> >>)

\* every entry printed, the zero ones too
Printed_All(item) ==
    TRUE

\* if count > 0
Printed(item) ==
    item[2] > 0

\* the team counts: an entry is printed when its count is positive
TeamCountSection(items) ==
    << <<"## Team Member Contribution Counts:">> >> \o
    (IF items # <<>>
     THEN IF SelectSeq(items, Printed) # <<>>
          THEN CountLines(SelectSeq(items, Printed))
          ELSE << <<"No team member contributions found.">> >>
     ELSE << <<"No team member contribution counts available.">> >>)

(* ------------------------------- state -------------------------------- *)

VARIABLES
    pc,                              \* position in main
    fault,                           \* the exception raised inside main, or None
    github_connection,               \* auth_to_github returned a connection
    repo_found,                      \* github_connection.repository returned one
    org_file_exists,                 \* org-data.json is present
    org_file,                        \* its content
    owning_team,                     \* env_vars.owning_team
    chunk_size,                      \* env_vars.chunk_size
    commits,                         \* repo_data.commits(), newest first
    contributors,                    \* repo_data.contributors()
    pulls,                           \* repo_data.pull_requests(state="all")
    issues,                          \* repo_data.issues(state="all")
    org_data,
    commit_list,
    team_members_that_own_the_repo,
    original_commit_author,
    original_commit_author_manager,
    all_contributors,
    innersource_contributors,
    contributors_iterator,           \* contributors yielded so far
    commit_author_counts,
    pr_author_counts,
    issue_author_counts,
    total_prs,
    total_issues,
    pulls_iterator,                  \* pull requests yielded so far
    issues_iterator,                 \* issues yielded so far
    chunk,
    innersource_contribution_counts,
    team_member_contribution_counts,
    innersource_ratio,
    written,                         \* the calls of write_to_markdown
    evaluated,                       \* the calls of evaluate_markdown_file_size
    log,                             \* logger.warning and logger.error calls
    pull_log,                        \* length of every chunk pulled, per stream
    next_calls,                      \* next() calls made, per stream
    org_traversed,                   \* org_data.items() was walked
    oldest_commit_read,              \* commit_list[-1] was read
    call,                            \* position in get_env_vars or evaluate_markdown_file_size
    raised,                          \* the exception that call raised, or None
    environ,                         \* os.environ
    env_vars,                        \* what get_env_vars returned
    output_file_name,                \* the argument of evaluate_markdown_file_size
    files,                           \* the files on disk: name -> content
    files_before,                    \* the files on disk when the call began
    writer_args,                     \* the keyword arguments of write_to_markdown
    report_file,                     \* the lines write_to_markdown has written
    logger,                          \* logging.getLogger("innersource_measure")
    setup_calls                      \* the calls of setup_logging and what they gave

inputs ==
    <<github_connection, repo_found, org_file_exists, org_file, owning_team,
      chunk_size, commits, contributors, pulls, issues>>

boundary ==
    <<team_members_that_own_the_repo, original_commit_author,
      original_commit_author_manager, org_traversed, oldest_commit_read>>

classification ==
    <<all_contributors, innersource_contributors, contributors_iterator>>

ingestion ==
    <<pr_author_counts, issue_author_counts, total_prs, total_issues,
      pulls_iterator, issues_iterator, chunk, pull_log, next_calls>>

results ==
    <<innersource_contribution_counts, team_member_contribution_counts,
      innersource_ratio, written, evaluated>>

\* the state of main
run ==
    <<pc, fault, inputs, org_data, commit_list, boundary, classification,
      commit_author_counts, ingestion, results, log>>

\* the state of the functions main calls before and after the run
disk ==
    <<output_file_name, files, files_before>>

rendering ==
    <<writer_args, report_file>>

logging ==
    <<logger, setup_calls>>

functions ==
    <<call, raised, environ, env_vars, disk, rendering, logging>>

vars ==
    <<run, functions>>

(* ------------------------------- inputs ------------------------------- *)

\* sequences over S of length at most n
RECURSIVE SeqsUpTo(_, _)
SeqsUpTo(S, n) ==
    IF n = 0 THEN {<<>>}
    ELSE LET shorter == SeqsUpTo(S, n - 1)
         IN shorter \cup {Append(s, v) : s \in {t \in shorter : Len(t) = n - 1}, v \in S}

OrgPool ==
    {Entry(a, m), Entry(e, a), Entry(f, e), Entry(m, d), Entry(x, y), Entry(ci_bot, m)}

\* org files: entries of the pool in any order, one entry per key
OrgFiles ==
    {o \in SeqsUpTo(OrgPool, MaxOrg) : \A i, j \in 1..Len(o) : i # j => o[i].user # o[j].user}

OrgA ==
    <<Entry(a, m), Entry(m, d), Entry(x, y)>>

OrgB ==
    <<Entry(a, m), Entry(ci_bot, y), Entry(bot_plain, y)>>

OrgE2E ==
    <<Entry(a, m), Entry(m, d)>>

Rosters ==
    {None, <<m>>, <<a, m>>, <<ci_bot, z>>, <<x, x>>}

ContributorPool ==
    {a, m, x, z, ci_bot, bot_plain, A_upper}

StreamPool ==
    {a, x, None}

CommitsE2E ==
    <<x, x, m, a, a, a>>

\* no file on disk
NoFiles ==
    [name \in {} |-> <<>>]

\* write_to_markdown has not been called
WriterIdle ==
    /\ writer_args = None
    /\ report_file = <<>>

\* a logger nobody has configured: no handler, level NOTSET, propagate on
FreshLogger ==
    [handlers |-> <<>>, level |-> 0, propagate |-> TRUE]

LoggerIdle ==
    /\ logger = FreshLogger
    /\ setup_calls = <<>>

\* main runs against a get_env_vars and a report file that are given to it
FunctionsIdle ==
    /\ call = "idle"
    /\ raised = None
    /\ environ = [name \in {} |-> <<>>]
    /\ env_vars = None
    /\ output_file_name = None
    /\ files = NoFiles
    /\ files_before = NoFiles
    /\ WriterIdle
    /\ LoggerIdle

\* the state of main before its first statement
StartRun(conn, found, exists, file, team, size, cs, cons, prs, iss) ==
    /\ fault = None
    /\ github_connection = conn
    /\ repo_found = found
    /\ org_file_exists = exists
    /\ org_file = file
    /\ owning_team = team
    /\ chunk_size = size
    /\ commits = cs
    /\ contributors = cons
    /\ pulls = prs
    /\ issues = iss
    /\ org_data = None
    /\ commit_list = <<>>
    /\ team_members_that_own_the_repo = <<>>
    /\ original_commit_author = None
    /\ original_commit_author_manager = None
    /\ all_contributors = <<>>
    /\ innersource_contributors = <<>>
    /\ contributors_iterator = 0
    /\ commit_author_counts = <<>>
    /\ pr_author_counts = <<>>
    /\ issue_author_counts = <<>>
    /\ total_prs = 0
    /\ total_issues = 0
    /\ pulls_iterator = 0
    /\ issues_iterator = 0
    /\ chunk = <<>>
    /\ innersource_contribution_counts = <<>>
    /\ team_member_contribution_counts = <<>>
    /\ innersource_ratio = None
    /\ written = <<>>
    /\ evaluated = 0
    /\ log = <<>>
    /\ pull_log = [pulls |-> <<>>, issues |-> <<>>]
    /\ next_calls = [pulls |-> 0, issues |-> 0]
    /\ org_traversed = FALSE
    /\ oldest_commit_read = FALSE

Start(conn, found, exists, file, team, size, cs, cons, prs, iss) ==
    /\ pc = "auth"
    /\ StartRun(conn, found, exists, file, team, size, cs, cons, prs, iss)
    /\ FunctionsIdle

\* any org chart, inferred mode
InitOrgCharts ==
    \E file \in OrgFiles, cs \in {<<x, a>>, <<A_upper>>} :
        Start(TRUE, TRUE, TRUE, file, None, 2, cs, <<f, m, x>>, <<x>>, <<>>)

\* any contributor roster, explicit and inferred mode
InitContributors ==
    \E file \in {OrgA, OrgB}, team \in Rosters,
       cons \in SeqsUpTo(ContributorPool, MaxContributors) :
        Start(TRUE, TRUE, TRUE, file, team, 2, <<x, a>>, cons, <<x, a>>, <<m>>)

\* any pull-request stream or any issue stream, any chunk size
InitStreams ==
    \E size \in 1..MaxChunk, items \in SeqsUpTo(StreamPool, MaxStream), pullsVary \in BOOLEAN :
        Start(TRUE, TRUE, TRUE, OrgA, None, size, <<x, a>>, <<a, x>>,
              IF pullsVary THEN items ELSE <<x>>,
              IF pullsVary THEN <<>> ELSE items)

\* any commit list, the empty one and unattributable commits included
InitCommits ==
    \E cs \in SeqsUpTo(StreamPool, 3), team \in {None, <<a>>} :
        Start(TRUE, TRUE, TRUE, OrgA, team, 2, cs, <<a, x>>, <<>>, <<x>>)

\* the end-to-end scenario of the specification, without and with x in the org data
InitEndToEnd ==
    \E file \in {OrgE2E, Append(OrgE2E, Entry(x, y))} :
        Start(TRUE, TRUE, TRUE, file, None, 2, CommitsE2E, <<a, m, x>>, <<>>, <<>>)

\* no connection, no repository, no org data
InitEarlyExits ==
    \E conn \in BOOLEAN, found \in BOOLEAN, exists \in BOOLEAN, file \in {<<>>, OrgA} :
        /\ ~(conn /\ found /\ exists /\ file # <<>>)
        /\ Start(conn, found, exists, file, None, 2, <<a>>, <<a>>, <<>>, <<>>)

\* org data with two keys that differ only by letter case
InitDuplicateKeys ==
    \E file \in {<<Entry(a, m), Entry(A_upper, x)>>,
                  <<Entry(A_upper, x), Entry(m, d), Entry(a, m)>>},
       cs \in {<<x, a>>, <<A_upper>>}, team \in {None, <<m>>} :
        Start(TRUE, TRUE, TRUE, file, team, 2, cs, <<a, A_upper>>, <<a>>, <<>>)

Init ==
    \/ InitOrgCharts
    \/ InitContributors
    \/ InitStreams
    \/ InitCommits
    \/ InitEndToEnd
    \/ InitEarlyExits
    \/ InitDuplicateKeys

(* ------------------------------ actions ------------------------------- *)

Warn(level, event, login) ==
    Append(log, <<level, event, login>>)

OldestCommit ==
    commit_list[Len(commit_list)]

\* auth_to_github and the test of its result
Authenticate ==
    /\ pc = "auth"
    /\ IF github_connection
       THEN pc' = "repository" /\ log' = log
       ELSE pc' = "exit_no_connection" /\ log' = Warn("error", "failed_to_connect", None)
    /\ UNCHANGED <<fault, inputs, functions, org_data, commit_list, boundary, classification,
                   commit_author_counts, ingestion, results>>

\* github_connection.repository(owner, repo)
FetchRepository ==
    /\ pc = "repository"
    /\ IF repo_found
       THEN pc' = "org_data" /\ log' = log
       ELSE pc' = "exit_no_repository" /\ log' = Warn("error", "unable_to_fetch_repository", None)
    /\ UNCHANGED <<fault, inputs, functions, org_data, commit_list, boundary, classification,
                   commit_author_counts, ingestion, results>>

\* the test of what was read left out
HasOrgData_Always(loaded) ==
    TRUE

\* if org_data: None and the empty dict are both false
HasOrgData(loaded) ==
    loaded # <<>>

\* reading org-data.json and the test of what was read
ReadOrgData ==
    /\ pc = "org_data"
    /\ LET loaded == IF org_file_exists THEN org_file ELSE None
           missing == IF org_file_exists THEN log ELSE Warn("warning", "no_org_data", None)
       IN /\ org_data' = loaded
          /\ IF HasOrgData(loaded)
             THEN pc' = "commits" /\ log' = missing
             ELSE pc' = "exit_no_org_data"
                  /\ log' = Append(missing, <<"error", "no_org_data", None>>)
    /\ UNCHANGED <<fault, inputs, functions, commit_list, boundary, classification,
                   commit_author_counts, ingestion, results>>

\* commit_list = list(repo_data.commits())
FetchCommits ==
    /\ pc = "commits"
    /\ commit_list' = commits
    /\ pc' = "team"
    /\ UNCHANGED <<fault, inputs, functions, org_data, boundary, classification,
                   commit_author_counts, ingestion, results, log>>

\* list(repo_data.commits()) raises: nothing in main handles it
ListCommitsFails ==
    /\ pc = "commits"
    /\ fault' = "GitHubError"
    /\ pc' = "crashed"
    /\ UNCHANGED <<inputs, functions, org_data, commit_list, boundary, classification,
                   commit_author_counts, ingestion, results, log>>

\* if owning_team: the configured roster is the team
UseOwningTeam ==
    /\ pc = "team"
    /\ ExplicitlySpecified(owning_team)
    /\ team_members_that_own_the_repo' = owning_team
    /\ original_commit_author' = None
    /\ original_commit_author_manager' = None
    /\ pc' = "contributors"
    /\ UNCHANGED <<fault, inputs, functions, org_data, commit_list, org_traversed, oldest_commit_read,
                   classification, commit_author_counts, ingestion, results, log>>

\* commit_list[-1].author.login on an empty list or on a commit without author
ReadOldestCommitFails ==
    /\ pc = "team"
    /\ ~ExplicitlySpecified(owning_team)
    /\ \/ /\ commit_list = <<>>
          /\ fault' = "IndexError"
          /\ oldest_commit_read' = FALSE
       \/ /\ commit_list # <<>>
          /\ ~HasLogin(OldestCommit)
          /\ fault' = "AttributeError"
          /\ oldest_commit_read' = TRUE
    /\ pc' = "crashed"
    /\ UNCHANGED <<inputs, functions, org_data, commit_list, team_members_that_own_the_repo,
                   original_commit_author, original_commit_author_manager, org_traversed,
                   classification, commit_author_counts, ingestion, results, log>>

\* the oldest commit's author is not a key of org_data: warn and return
AuthorNotInOrgChart ==
    /\ pc = "team"
    /\ ~ExplicitlySpecified(owning_team)
    /\ commit_list # <<>>
    /\ HasLogin(OldestCommit)
    /\ ~InOrgData(org_data, OldestCommit)
    /\ original_commit_author' = OldestCommit
    /\ oldest_commit_read' = TRUE
    /\ log' = Warn("warning", "original_commit_author_not_found", OldestCommit)
    /\ pc' = "exit_author_not_in_org"
    /\ UNCHANGED <<fault, inputs, functions, org_data, commit_list, team_members_that_own_the_repo,
                   original_commit_author_manager, org_traversed, classification,
                   commit_author_counts, ingestion, results>>

\* the team is the author, the manager and the reports found in org_data
InferTeam ==
    /\ pc = "team"
    /\ ~ExplicitlySpecified(owning_team)
    /\ commit_list # <<>>
    /\ HasLogin(OldestCommit)
    /\ InOrgData(org_data, OldestCommit)
    /\ original_commit_author' = OldestCommit
    /\ original_commit_author_manager' = ManagerOf(org_data, OldestCommit)
    /\ oldest_commit_read' = TRUE
    /\ org_traversed' = TRUE
    /\ team_members_that_own_the_repo' \in
           Orderings(Range(InferredTeam(org_data, OldestCommit)))
    /\ pc' = "contributors"
    /\ UNCHANGED <<fault, inputs, functions, org_data, commit_list, classification,
                   commit_author_counts, ingestion, results, log>>

\* one turn of the loop over repo_data.contributors()
AnalyzeContributor ==
    /\ pc = "contributors"
    /\ contributors_iterator < Len(contributors)
    /\ LET login == contributors[contributors_iterator + 1]
       IN /\ contributors_iterator' = contributors_iterator + 1
          /\ all_contributors' = Append(all_contributors, login)
          /\ IF ~InOrgData(org_data, login)
             THEN /\ log' = Warn("warning", "contributor_not_found", login)
                  /\ innersource_contributors' = innersource_contributors
             ELSE /\ log' = log
                  /\ innersource_contributors' =
                         IF IsInnersource(login, team_members_that_own_the_repo)
                         THEN Append(innersource_contributors, login)
                         ELSE innersource_contributors
    /\ UNCHANGED <<pc, fault, inputs, functions, org_data, commit_list, boundary,
                   commit_author_counts, ingestion, results>>

\* the iteration over repo_data.contributors() raises: nothing in main handles it
NextContributorFails ==
    /\ pc = "contributors"
    /\ fault' = "GitHubError"
    /\ pc' = "crashed"
    /\ UNCHANGED <<inputs, functions, org_data, commit_list, boundary, classification,
                   commit_author_counts, ingestion, results, log>>

\* the commits counted while contributors are still to be read
ProcessCommits_BeforeClassificationEnds ==
    /\ pc = "contributors"
    /\ commit_author_counts' = CountAuthors(commit_list, <<>>)
    /\ pc' = "pulls"
    /\ UNCHANGED <<fault, inputs, functions, org_data, commit_list, boundary,
                   classification, ingestion, results, log>>

\* the contributors are exhausted; commit_author_counts from commit_list
ProcessCommits ==
    /\ pc = "contributors"
    /\ contributors_iterator = Len(contributors)
    /\ commit_author_counts' = CountAuthors(commit_list, <<>>)
    /\ pc' = "pulls"
    /\ UNCHANGED <<fault, inputs, functions, org_data, commit_list, boundary, classification,
                   ingestion, results, log>>

\* the pull of a chunk that never returns
PullPullRequests_Blocks ==
    /\ pc = "pulls"
    /\ UNCHANGED vars

\* pull one chunk of pull requests; an empty chunk leaves the loop
PullPullRequests ==
    /\ pc = "pulls"
    /\ LET r == NextChunk(pulls, pulls_iterator, chunk_size, <<>>, 0)
       IN /\ chunk' = r.chunk
          /\ pulls_iterator' = r.pos
          /\ next_calls' = [next_calls EXCEPT !.pulls = @ + r.calls]
          /\ pull_log' = [pull_log EXCEPT !.pulls = Append(@, Len(r.chunk))]
          /\ pc' = IF LoopEnds(r.chunk) THEN "issues" ELSE "pulls_count"
    /\ UNCHANGED <<fault, inputs, functions, org_data, commit_list, boundary, classification,
                   commit_author_counts, pr_author_counts, issue_author_counts,
                   total_prs, total_issues, issues_iterator, results, log>>

\* next(pulls_iterator) raises at the head of a chunk.  An exception that the
\* except clause catches leaves the inner loop like exhaustion does, with an
\* empty chunk; any other one leaves main.
NextPullFails ==
    /\ pc = "pulls"
    /\ fault' = "GitHubError"
    /\ IF Caught("GitHubError")
       THEN /\ chunk' = <<>>
            /\ next_calls' = [next_calls EXCEPT !.pulls = @ + 1]
            /\ pull_log' = [pull_log EXCEPT !.pulls = Append(@, 0)]
            /\ pc' = "issues"
       ELSE /\ UNCHANGED <<chunk, next_calls, pull_log>>
            /\ pc' = "crashed"
    /\ UNCHANGED <<inputs, functions, org_data, commit_list, boundary, classification,
                   commit_author_counts, pr_author_counts, issue_author_counts,
                   total_prs, total_issues, pulls_iterator, issues_iterator, results, log>>

\* reduce the chunk into pr_author_counts
CountPullRequests ==
    /\ pc = "pulls_count"
    /\ pr_author_counts' = CountAuthors(chunk, pr_author_counts)
    /\ total_prs' = total_prs + Len(chunk)
    /\ pc' = "pulls"
    /\ UNCHANGED <<fault, inputs, functions, org_data, commit_list, boundary, classification,
                   commit_author_counts, issue_author_counts, total_issues,
                   pulls_iterator, issues_iterator, chunk, pull_log, next_calls,
                   results, log>>

\* pull one chunk of issues; an empty chunk leaves the loop
PullIssues ==
    /\ pc = "issues"
    /\ LET r == NextChunk(issues, issues_iterator, chunk_size, <<>>, 0)
       IN /\ chunk' = r.chunk
          /\ issues_iterator' = r.pos
          /\ next_calls' = [next_calls EXCEPT !.issues = @ + r.calls]
          /\ pull_log' = [pull_log EXCEPT !.issues = Append(@, Len(r.chunk))]
          /\ pc' = IF LoopEnds(r.chunk) THEN "innersource_counts" ELSE "issues_count"
    /\ UNCHANGED <<fault, inputs, functions, org_data, commit_list, boundary, classification,
                   commit_author_counts, pr_author_counts, issue_author_counts,
                   total_prs, total_issues, pulls_iterator, results, log>>

\* next(issues_iterator) raises at the head of a chunk
NextIssueFails ==
    /\ pc = "issues"
    /\ fault' = "GitHubError"
    /\ IF Caught("GitHubError")
       THEN /\ chunk' = <<>>
            /\ next_calls' = [next_calls EXCEPT !.issues = @ + 1]
            /\ pull_log' = [pull_log EXCEPT !.issues = Append(@, 0)]
            /\ pc' = "innersource_counts"
       ELSE /\ UNCHANGED <<chunk, next_calls, pull_log>>
            /\ pc' = "crashed"
    /\ UNCHANGED <<inputs, functions, org_data, commit_list, boundary, classification,
                   commit_author_counts, pr_author_counts, issue_author_counts,
                   total_prs, total_issues, pulls_iterator, issues_iterator, results, log>>

\* reduce the chunk into issue_author_counts
CountIssues ==
    /\ pc = "issues_count"
    /\ issue_author_counts' = CountAuthors(chunk, issue_author_counts)
    /\ total_issues' = total_issues + Len(chunk)
    /\ pc' = "issues"
    /\ UNCHANGED <<fault, inputs, functions, org_data, commit_list, boundary, classification,
                   commit_author_counts, pr_author_counts, total_prs,
                   pulls_iterator, issues_iterator, chunk, pull_log, next_calls,
                   results, log>>

\* innersource_contribution_counts, one entry per innersource contributor
CountInnersourceContributions ==
    /\ pc = "innersource_counts"
    /\ innersource_contribution_counts' =
           ContributionCounts(innersource_contributors, commit_author_counts,
                              pr_author_counts, issue_author_counts)
    /\ pc' = "team_counts"
    /\ UNCHANGED <<fault, inputs, functions, org_data, commit_list, boundary, classification,
                   commit_author_counts, ingestion, team_member_contribution_counts,
                   innersource_ratio, written, evaluated, log>>

\* team_member_contribution_counts, one entry per team member
CountTeamContributions ==
    /\ pc = "team_counts"
    /\ team_member_contribution_counts' =
           ContributionCounts(team_members_that_own_the_repo, commit_author_counts,
                              pr_author_counts, issue_author_counts)
    /\ pc' = "ratio"
    /\ UNCHANGED <<fault, inputs, functions, org_data, commit_list, boundary, classification,
                   commit_author_counts, ingestion, innersource_contribution_counts,
                   innersource_ratio, written, evaluated, log>>

\* the report written without the ratio having been computed
ComputeRatio_LeftOut ==
    /\ pc = "ratio"
    /\ pc' = "write"
    /\ UNCHANGED <<fault, inputs, functions, org_data, commit_list, boundary, classification,
                   commit_author_counts, ingestion, results, log>>

\* innersource_ratio
ComputeRatio ==
    /\ pc = "ratio"
    /\ innersource_ratio' =
           Ratio(innersource_contribution_counts, team_member_contribution_counts)
    /\ pc' = "write"
    /\ UNCHANGED <<fault, inputs, functions, org_data, commit_list, boundary, classification,
                   commit_author_counts, ingestion, innersource_contribution_counts,
                   team_member_contribution_counts, written, evaluated, log>>

\* the call of write_to_markdown, with its keyword arguments
WriteReport ==
    /\ pc = "write"
    /\ written' = Append(written,
           [innersource_ratio |-> innersource_ratio,
            original_commit_author |-> original_commit_author,
            original_commit_author_manager |-> original_commit_author_manager,
            team_members_that_own_the_repo |-> team_members_that_own_the_repo,
            all_contributors |-> all_contributors,
            innersource_contributors |-> innersource_contributors,
            innersource_contribution_counts |-> innersource_contribution_counts,
            team_member_contribution_counts |-> team_member_contribution_counts,
            team_ownership_explicitly_specified |-> ExplicitlySpecified(owning_team)])
    /\ pc' = "evaluate"
    /\ UNCHANGED <<fault, inputs, functions, org_data, commit_list, boundary, classification,
                   commit_author_counts, ingestion, innersource_contribution_counts,
                   team_member_contribution_counts, innersource_ratio, evaluated, log>>

\* the call of evaluate_markdown_file_size
EvaluateFileSize ==
    /\ pc = "evaluate"
    /\ evaluated' = evaluated + 1
    /\ pc' = "done"
    /\ UNCHANGED <<fault, inputs, functions, org_data, commit_list, boundary, classification,
                   commit_author_counts, ingestion, innersource_contribution_counts,
                   team_member_contribution_counts, innersource_ratio, written, log>>

Next ==
    \/ Authenticate
    \/ FetchRepository
    \/ ReadOrgData
    \/ FetchCommits
    \/ ListCommitsFails
    \/ UseOwningTeam
    \/ ReadOldestCommitFails
    \/ AuthorNotInOrgChart
    \/ InferTeam
    \/ AnalyzeContributor
    \/ NextContributorFails
    \/ ProcessCommits
    \/ PullPullRequests
    \/ NextPullFails
    \/ CountPullRequests
    \/ PullIssues
    \/ NextIssueFails
    \/ CountIssues
    \/ CountInnersourceContributions
    \/ CountTeamContributions
    \/ ComputeRatio
    \/ WriteReport
    \/ EvaluateFileSize

Spec ==
    Init /\ [][Next]_vars

\* the steps main takes by itself: every statement that does not raise.
\* A fetch that fails is the doing of the API, which nothing obliges to fail.
Steps ==
    \/ Authenticate
    \/ FetchRepository
    \/ ReadOrgData
    \/ FetchCommits
    \/ UseOwningTeam
    \/ ReadOldestCommitFails
    \/ AuthorNotInOrgChart
    \/ InferTeam
    \/ AnalyzeContributor
    \/ ProcessCommits
    \/ PullPullRequests
    \/ CountPullRequests
    \/ PullIssues
    \/ CountIssues
    \/ CountInnersourceContributions
    \/ CountTeamContributions
    \/ ComputeRatio
    \/ WriteReport
    \/ EvaluateFileSize

\* the runs whose end is in question: streams up to MaxLiveStream items
\* under every chunk size, with the runs of the other families that end
\* early or resolve the boundary otherwise
InitLive ==
    \/ /\ InitStreams
       /\ Len(pulls) <= MaxLiveStream
       /\ Len(issues) <= MaxLiveStream
    \/ InitOrgCharts /\ Len(org_file) <= 1
    \/ InitEndToEnd
    \/ InitCommits
    \/ InitEarlyExits

\* main is one thread whose blocking calls return: a statement that can run
\* does run
LiveSpec ==
    InitLive /\ [][Next]_vars /\ WF_vars(Steps)

TypeOK ==
    /\ pc \in {"auth", "repository", "org_data", "commits", "team", "contributors",
               "pulls", "pulls_count", "issues", "issues_count", "innersource_counts",
               "team_counts", "ratio", "write", "evaluate", "done", "crashed",
               "exit_no_connection", "exit_no_repository", "exit_no_org_data",
               "exit_author_not_in_org"}
    /\ Len(written) <= 1

(* ------------------- get_env_vars: inputs and steps ------------------- *)

\* a variable that os.environ does not hold
Unset ==
    <<"<unset>">>

\* os.environ from a record of values, the unset ones left out
Environ(r) ==
    [name \in {k \in DOMAIN r : r[k] # Unset} |-> r[name]]

TokenValues ==
    {Unset, <<>>, <<"t">>}

AppIdValues ==
    {Unset, <<>>, <<"1", "2">>, <<"0">>, <<"a">>}

PrivateKeyValues ==
    {Unset, <<>>, <<"k">>}

InstallationIdValues ==
    {Unset, <<"5">>}

RepositoryValues ==
    {Unset, <<>>, <<"o", "/", "r">>, <<"o", "r">>, <<"a", "/", "b", "/", "c">>, <<"/">>}

ChunkSizeValues ==
    {Unset, <<>>, <<"5">>, <<"0">>, <<"-", "3">>, <<"1", "0">>, <<"1", "1">>,
     <<"2", "0", "0">>, <<"a", "b", "c">>, <<" ", "7", " ">>, <<"+", "1", "2">>,
     <<"1", "_", "0">>, <<"1", ".", "5">>, <<"9">>}

OwningTeamValues ==
    {Unset, <<>>, <<" ">>, <<" ", ",", " ", ",">>, <<"a">>, <<"a", ",", "b">>,
     <<" ", "a", " ", ",", " ", "b", " ">>, <<"b", ",", ",", "a">>, <<"a", ",">>}

\* any authentication and any repository
AuthenticationEnvironments ==
    {Environ(r) : r \in [GH_TOKEN : TokenValues, GH_APP_ID : AppIdValues,
                         GH_APP_PRIVATE_KEY : PrivateKeyValues,
                         GH_APP_INSTALLATION_ID : InstallationIdValues,
                         REPOSITORY : RepositoryValues,
                         CHUNK_SIZE : {Unset}, OWNING_TEAM : {Unset}]}

\* a token and a repository, any chunk size and any owning team
TuningEnvironments ==
    {Environ(r) : r \in [GH_TOKEN : {<<"t">>}, GH_APP_ID : {Unset},
                         GH_APP_PRIVATE_KEY : {Unset},
                         GH_APP_INSTALLATION_ID : {Unset},
                         REPOSITORY : {<<"o", "/", "r">>},
                         CHUNK_SIZE : ChunkSizeValues, OWNING_TEAM : OwningTeamValues]}

InitGetEnvVars ==
    /\ pc = "get_env_vars"
    /\ StartRun(FALSE, FALSE, FALSE, <<>>, None, MIN_CHUNK_SIZE, <<>>, <<>>, <<>>, <<>>)
    /\ call = "gh_app"
    /\ raised = None
    /\ environ \in AuthenticationEnvironments \cup TuningEnvironments
    /\ env_vars = None
    /\ output_file_name = None
    /\ files = NoFiles
    /\ files_before = NoFiles
    /\ WriterIdle
    /\ LoggerIdle

Raise(type, message) ==
    /\ call' = "raised"
    /\ raised' = <<type, message>>

\* the GitHub App credentials and the test of their completeness
ReadAppCredentials ==
    /\ call = "gh_app"
    /\ IF AppCredentialsIncomplete(get_int_env_var(environ, "GH_APP_ID"),
                                   Getenv(environ, "GH_APP_PRIVATE_KEY", <<>>),
                                   get_int_env_var(environ, "GH_APP_INSTALLATION_ID"))
       THEN Raise("ValueError",
                  "GH_APP_ID set and GH_APP_INSTALLATION_ID or GH_APP_PRIVATE_KEY variable not set")
       ELSE call' = "gh_token" /\ raised' = raised
    /\ UNCHANGED <<run, rendering, logging, environ, env_vars, disk>>

\* the token and the test that some authentication is there
ReadToken ==
    /\ call = "gh_token"
    /\ IF AuthenticationMissing(get_int_env_var(environ, "GH_APP_ID"),
                                Getenv(environ, "GH_APP_PRIVATE_KEY", <<>>),
                                get_int_env_var(environ, "GH_APP_INSTALLATION_ID"),
                                Getenv(environ, "GH_TOKEN", None))
       THEN Raise("ValueError", "GH_TOKEN environment variable not set")
       ELSE call' = "repository" /\ raised' = raised
    /\ UNCHANGED <<run, rendering, logging, environ, env_vars, disk>>

\* REPOSITORY and the tests of its form
ReadRepository ==
    /\ call = "repository"
    /\ LET repository == Getenv(environ, "REPOSITORY", <<>>)
       IN IF repository = <<>>
          THEN Raise("ValueError", "REPOSITORY environment variable not set")
          ELSE IF ~Contains(repository, "/")
          THEN Raise("ValueError",
                     "REPOSITORY environment variable must be in the format 'owner/repo'")
          ELSE call' = "chunk_size" /\ raised' = raised
    /\ UNCHANGED <<run, rendering, logging, environ, env_vars, disk>>

\* the remaining variables and the EnvVars returned
ReturnEnvVars ==
    /\ call = "chunk_size"
    /\ env_vars' = EnvVars(environ)
    /\ call' = "returned"
    /\ UNCHANGED <<run, rendering, logging, raised, environ, disk>>

NextGetEnvVars ==
    \/ ReadAppCredentials
    \/ ReadToken
    \/ ReadRepository
    \/ ReturnEnvVars

SpecGetEnvVars ==
    InitGetEnvVars /\ [][NextGetEnvVars]_vars

(* ------------ evaluate_markdown_file_size: inputs and steps ----------- *)

\* the output_file argument: "", r.md, report.md, r.markdown, r.txt, r, a.b.md, d/r.md
OutputFiles ==
    {<<>>, <<"r", ".", "m", "d">>, <<"r", "e", "p", "o", "r", "t", ".", "m", "d">>,
     <<"r", ".", "m", "a", "r", "k", "d", "o", "w", "n">>, <<"r", ".", "t", "x", "t">>,
     <<"r">>, <<"a", ".", "b", ".", "m", "d">>, <<"d", "/", "r", ".", "m", "d">>}

\* lengths of the report around the limit and its multiples
ReportLengths ==
    {0, 1, GITHUB_ISSUE_BODY_MAX_CHARS - 1, GITHUB_ISSUE_BODY_MAX_CHARS,
     GITHUB_ISSUE_BODY_MAX_CHARS + 1, 2 * GITHUB_ISSUE_BODY_MAX_CHARS,
     2 * GITHUB_ISSUE_BODY_MAX_CHARS + 1, 3 * GITHUB_ISSUE_BODY_MAX_CHARS + 7}

\* the report written under the output file name; an older first part may lie
\* in the working directory
InitEvaluate ==
    /\ pc = "evaluate_markdown_file_size"
    /\ StartRun(TRUE, TRUE, TRUE, <<>>, None, MIN_CHUNK_SIZE, <<>>, <<>>, <<>>, <<>>)
    /\ call = "too_large"
    /\ raised = None
    /\ environ = [name \in {} |-> <<>>]
    /\ env_vars = None
    /\ output_file_name \in OutputFiles
    /\ \E length \in ReportLengths, older \in BOOLEAN :
           LET report == WriteFile(NoFiles, OutputFileName(output_file_name),
                                   Text("report", 0, length))
           IN files = IF older
                      THEN WriteFile(report, FirstPartName(Stem(OutputFileName(output_file_name))),
                                     Text("older", 0, 5))
                      ELSE report
    /\ files_before = files
    /\ WriterIdle
    /\ LoggerIdle

\* markdown_too_large_for_issue_body and the test of its result
CheckSize ==
    /\ call = "too_large"
    /\ call' = IF markdown_too_large_for_issue_body(files, OutputFileName(output_file_name),
                                                    GITHUB_ISSUE_BODY_MAX_CHARS)
               THEN "split" ELSE "returned"
    /\ UNCHANGED <<run, rendering, logging, raised, environ, env_vars, disk>>

\* split_markdown_file(output_file_name, max_char_count)
SplitMarkdownFile ==
    /\ call = "split"
    /\ files' = split_markdown_file(files, OutputFileName(output_file_name),
                                    GITHUB_ISSUE_BODY_MAX_CHARS)
    /\ call' = "move_full"
    /\ UNCHANGED <<run, rendering, logging, raised, environ, env_vars, output_file_name, files_before>>

\* shutil.move(output_file_name, f"{stem}_full.md")
MoveToFull ==
    /\ call = "move_full"
    /\ files' = Move(files, OutputFileName(output_file_name),
                     FullName(Stem(OutputFileName(output_file_name))))
    /\ call' = "move_first"
    /\ UNCHANGED <<run, rendering, logging, raised, environ, env_vars, output_file_name, files_before>>

\* shutil.move(f"{stem}_0.md", output_file_name); a source that is not there
\* is a FileNotFoundError
MoveFirstPart ==
    /\ call = "move_first"
    /\ LET first == FirstPartName(Stem(OutputFileName(output_file_name)))
       IN IF first \in DOMAIN files
          THEN /\ files' = Move(files, first, OutputFileName(output_file_name))
               /\ call' = "returned"
               /\ raised' = raised
          ELSE /\ Raise("FileNotFoundError", "No such file or directory")
               /\ files' = files
    /\ UNCHANGED <<run, rendering, logging, environ, env_vars, output_file_name, files_before>>

NextEvaluate ==
    \/ CheckSize
    \/ SplitMarkdownFile
    \/ MoveToFull
    \/ MoveFirstPart

SpecEvaluate ==
    InitEvaluate /\ [][NextEvaluate]_vars

(* ---------------- write_to_markdown: inputs and steps ------------------ *)

\* the items of a dict whose keys were inserted in the order of logins
RECURSIVE Items(_, _, _)
Items(counts, logins, seen) ==
    IF logins = <<>> THEN <<>>
    ELSE IF Head(logins) \in seen THEN Items(counts, Tail(logins), seen)
    ELSE << <<Head(logins), counts[Head(logins)]>> >> \o
         Items(counts, Tail(logins), seen \cup {Head(logins)})

WriterTeams ==
    {<<>>, <<m>>, <<a, m>>, <<x, x>>}

\* commit_author_counts: none, a alone, x and a
WriterCommitCounts ==
    {[l \in {} |-> 0], [l \in {a} |-> 2], [l \in {a, x} |-> IF l = a THEN 1 ELSE 3]}

\* the keywords main passes, without and with the explicit-roster flag
WriterKeywords ==
    {Parameters, Parameters \cup {"team_ownership_explicitly_specified"}}

\* the arguments main builds from a team, the innersource contributors and the counts
WriterArgs(keywords, flag, repo_data, author, manager, team, innersource, counts) ==
    [keywords |-> keywords,
     team_ownership_explicitly_specified |-> flag,
     repo_data |-> repo_data,
     innersource_ratio |->
         Ratio(ContributionCounts(innersource, counts, <<>>, <<>>),
               ContributionCounts(team, counts, <<>>, <<>>)),
     original_commit_author |-> author,
     original_commit_author_manager |-> manager,
     team_members_that_own_the_repo |-> team,
     all_contributors |-> team \o innersource,
     innersource_contributors |-> innersource,
     innersource_contribution_counts |->
         Items(ContributionCounts(innersource, counts, <<>>, <<>>), innersource, {}),
     team_member_contribution_counts |->
         Items(ContributionCounts(team, counts, <<>>, <<>>), team, {})]

InitWriteToMarkdown ==
    /\ pc = "write_to_markdown"
    /\ StartRun(TRUE, TRUE, TRUE, <<>>, None, MIN_CHUNK_SIZE, <<>>, <<>>, <<>>, <<>>)
    /\ call = "bind"
    /\ raised = None
    /\ environ = [name \in {} |-> <<>>]
    /\ env_vars = None
    /\ output_file_name = None
    /\ files = NoFiles
    /\ files_before = NoFiles
    /\ LoggerIdle
    /\ report_file = <<>>
    /\ \E keywords \in WriterKeywords, flag \in BOOLEAN,
          repo_data \in {None, <<"o", "/", "r">>},
          author \in {None, a}, manager \in {None, m},
          team \in WriterTeams, innersource \in {<<>>, <<x>>, <<z>>},
          counts \in WriterCommitCounts :
           writer_args = WriterArgs(keywords, flag, repo_data, author, manager,
                                    team, innersource, counts)

\* the call: the keywords are bound to the parameters before the body runs
BindArguments ==
    /\ call = "bind"
    /\ IF Accepted(writer_args.keywords)
       THEN call' = "title" /\ raised' = raised
       ELSE Raise("TypeError", "write_to_markdown() got an unexpected keyword argument")
    /\ UNCHANGED <<run, environ, env_vars, disk, rendering, logging>>

\* the title; without repo_data the report is "no op"
WriteTitle ==
    /\ call = "title"
    /\ IF writer_args.repo_data = None
       THEN /\ report_file' = << <<"# ", "report_title">>, <<"no op">> >>
            /\ call' = "returned"
       ELSE /\ report_file' = << <<"# ", "report_title">> >>
            /\ call' = "header"
    /\ UNCHANGED <<run, raised, environ, env_vars, disk, writer_args, logging>>

\* repository, ratio and the ownership header
WriteHeader ==
    /\ call = "header"
    /\ report_file' = report_file \o
           <<RepositoryLine(writer_args.repo_data),
             RatioLine(writer_args.innersource_ratio),
             OwnershipLine(writer_args.original_commit_author,
                           writer_args.original_commit_author_manager)>>
    /\ call' = "lists"
    /\ UNCHANGED <<run, raised, environ, env_vars, disk, writer_args, logging>>

\* team members, all contributors, innersource contributors
WriteLists ==
    /\ call = "lists"
    /\ report_file' = report_file \o
           ListSection("## Team Members that Own the Repo:",
                       writer_args.team_members_that_own_the_repo,
                       "No team members available.") \o
           ListSection("## All Contributors:", writer_args.all_contributors,
                       "No contributors found.") \o
           ListSection("## Innersource Contributors:", writer_args.innersource_contributors,
                       "No InnerSource contributors found.")
    /\ call' = "counts"
    /\ UNCHANGED <<run, raised, environ, env_vars, disk, writer_args, logging>>

\* the two sections of counts
WriteCounts ==
    /\ call = "counts"
    /\ report_file' = report_file \o
           InnersourceCountSection(writer_args.innersource_contribution_counts) \o
           TeamCountSection(writer_args.team_member_contribution_counts)
    /\ call' = "returned"
    /\ UNCHANGED <<run, raised, environ, env_vars, disk, writer_args, logging>>

NextWriteToMarkdown ==
    \/ BindArguments
    \/ WriteTitle
    \/ WriteHeader
    \/ WriteLists
    \/ WriteCounts

SpecWriteToMarkdown ==
    InitWriteToMarkdown /\ [][NextWriteToMarkdown]_vars

(* ----------------- setup_logging: inputs and steps --------------------- *)

Lowercase ==
    <<"a", "b", "c", "d", "e", "f", "g", "h", "i", "j", "k", "l", "m",
      "n", "o", "p", "q", "r", "s", "t", "u", "v", "w", "x", "y", "z">>

Uppercase ==
    <<"A", "B", "C", "D", "E", "F", "G", "H", "I", "J", "K", "L", "M",
      "N", "O", "P", "Q", "R", "S", "T", "U", "V", "W", "X", "Y", "Z">>

UpperChar(c) ==
    IF \E i \in DOMAIN Lowercase : Lowercase[i] = c
    THEN Uppercase[CHOOSE i \in DOMAIN Lowercase : Lowercase[i] = c]
    ELSE c

\* level.upper()
Upper(s) ==
    [i \in 1..Len(s) |-> UpperChar(s[i])]

\* logging.getLogger("innersource_measure"): one object per name
LOGGER_NAME ==
    "innersource_measure"

\* the attributes of the logging module whose names are all upper case: the
\* level numbers, and BASIC_FORMAT, which is a format string
LevelNumbers ==
    [name \in {<<"C", "R", "I", "T", "I", "C", "A", "L">>, <<"F", "A", "T", "A", "L">>,
               <<"E", "R", "R", "O", "R">>, <<"W", "A", "R", "N", "I", "N", "G">>,
               <<"W", "A", "R", "N">>, <<"I", "N", "F", "O">>,
               <<"D", "E", "B", "U", "G">>, <<"N", "O", "T", "S", "E", "T">>} |->
        CASE name = <<"C", "R", "I", "T", "I", "C", "A", "L">> -> 50
          [] name = <<"F", "A", "T", "A", "L">> -> 50
          [] name = <<"E", "R", "R", "O", "R">> -> 40
          [] name = <<"W", "A", "R", "N", "I", "N", "G">> -> 30
          [] name = <<"W", "A", "R", "N">> -> 30
          [] name = <<"I", "N", "F", "O">> -> 20
          [] name = <<"D", "E", "B", "U", "G">> -> 10
          [] OTHER -> 0]

BASIC_FORMAT ==
    <<"B", "A", "S", "I", "C", "_", "F", "O", "R", "M", "A", "T">>

\* getattr(logging, level.upper(), logging.INFO)
NumericLevel(level) ==
    IF Upper(level) \in DOMAIN LevelNumbers
    THEN [type |-> "int", value |-> LevelNumbers[Upper(level)]]
    ELSE IF Upper(level) = BASIC_FORMAT
         THEN [type |-> "str", value |-> 0]
         ELSE [type |-> "int", value |-> LevelNumbers[<<"I", "N", "F", "O">>]]

\* Logger.setLevel takes an int, or the name of a level; the format string
\* is neither
SetLevelAccepts(numeric_level) ==
    numeric_level.type = "int"

\* the levels a caller passes
Levels ==
    {<<"I", "N", "F", "O">>, <<"D", "E", "B", "U", "G">>, <<"d", "e", "b", "u", "g">>,
     <<"W", "a", "r", "n", "i", "n", "g">>, <<"n", "o", "t", "s", "e", "t">>,
     <<"b", "o", "g", "u", "s">>,
     <<"b", "a", "s", "i", "c", "_", "f", "o", "r", "m", "a", "t">>}

\* the process starts with a logger nobody has configured
InitSetupLogging ==
    /\ pc = "setup_logging"
    /\ StartRun(TRUE, TRUE, TRUE, <<>>, None, MIN_CHUNK_SIZE, <<>>, <<>>, <<>>, <<>>)
    /\ call = "idle"
    /\ raised = None
    /\ environ = [name \in {} |-> <<>>]
    /\ env_vars = None
    /\ output_file_name = None
    /\ files = NoFiles
    /\ files_before = NoFiles
    /\ WriterIdle
    /\ LoggerIdle

\* one call as its caller sees it
Called(level, outcome, after) ==
    [level |-> level, before |-> logger, after |-> after,
     returned |-> IF outcome = "returned" THEN LOGGER_NAME ELSE "",
     raised |-> IF outcome = "returned" THEN "" ELSE outcome]

\* if logger.handlers: return logger
ReturnConfigured ==
    /\ Len(setup_calls) < MaxCalls
    /\ logger.handlers # <<>>
    /\ \E level \in Levels :
           setup_calls' = Append(setup_calls, Called(level, "returned", logger))
    /\ UNCHANGED <<run, call, raised, environ, env_vars, disk, rendering, logger>>

\* the level set on the logger and on a new handler, the handler added
Configure ==
    /\ Len(setup_calls) < MaxCalls
    /\ logger.handlers = <<>>
    /\ \E level \in Levels :
           /\ SetLevelAccepts(NumericLevel(level))
           /\ logger' = [handlers |-> Append(logger.handlers, NumericLevel(level).value),
                         level |-> NumericLevel(level).value,
                         propagate |-> FALSE]
           /\ setup_calls' = Append(setup_calls, Called(level, "returned", logger'))
    /\ UNCHANGED <<run, call, raised, environ, env_vars, disk, rendering>>

\* logger.setLevel(numeric_level) raises ValueError: no handler is added
SetLevelRaises ==
    /\ Len(setup_calls) < MaxCalls
    /\ logger.handlers = <<>>
    /\ \E level \in Levels :
           /\ ~SetLevelAccepts(NumericLevel(level))
           /\ setup_calls' = Append(setup_calls, Called(level, "ValueError", logger))
    /\ UNCHANGED <<run, call, raised, environ, env_vars, disk, rendering, logger>>

NextSetupLogging ==
    \/ ReturnConfigured
    \/ Configure
    \/ SetLevelRaises

SpecSetupLogging ==
    InitSetupLogging /\ [][NextSetupLogging]_vars

(* ------------------------------- claims ------------------------------- *)

Payload ==
    written[1]

TeamResolved ==
    pc \in {"contributors", "pulls", "pulls_count", "issues", "issues_count",
            "innersource_counts", "team_counts", "ratio", "write", "evaluate", "done"}

PullsConsumed ==
    pc \in {"issues", "issues_count", "innersource_counts", "team_counts", "ratio",
            "write", "evaluate", "done"}

IssuesConsumed ==
    pc \in {"innersource_counts", "team_counts", "ratio", "write", "evaluate", "done"}

Stopped ==
    pc \in {"crashed", "exit_no_connection", "exit_no_repository", "exit_no_org_data",
            "exit_author_not_in_org"}

Occurrences(items, login) ==
    Cardinality({i \in 1..Len(items) : items[i] = login})

CountIn(counts, login) ==
    IF login \in DOMAIN counts THEN counts[login] ELSE 0

\* every user whose manager chain reaches a member of S, with S
RECURSIVE ReportsClosure(_, _)
ReportsClosure(org, S) ==
    LET T == S \cup {org[i].user : i \in {j \in 1..Len(org) : org[j].manager \in S}}
    IN IF T = S THEN S ELSE ReportsClosure(org, T)

\* C1: in inferred mode the resolved team boundary is exactly the author, the
\* author's manager M and every user whose manager chain reaches M, whatever
\* the order in which the org-data entries are enumerated.
C1_BoundaryIsTheClosure ==
    (TeamResolved /\ org_traversed) =>
        Range(team_members_that_own_the_repo) =
            ReportsClosure(org_data, {original_commit_author, original_commit_author_manager})

SameLogin(u, v) ==
    Lower(u) = Lower(v)

NoCaseCollisions(org) ==
    \A i, j \in 1..Len(org) : SameLogin(org[i].user, org[j].user) => i = j

\* C2: with no two org-data keys equal up to letter case, an oldest-commit
\* author or a contributor whose login equals an org-data key up to letter
\* case is found in the org chart, and the manager is the one stored there.
C2_LookupIgnoresCase ==
    NoCaseCollisions(org_data) =>
        \A i \in 1..Len(org_data) :
            /\ (original_commit_author # None
                    /\ SameLogin(original_commit_author, org_data[i].user)) =>
                   /\ pc # "exit_author_not_in_org"
                   /\ original_commit_author_manager = org_data[i].manager
            /\ \A k \in 1..contributors_iterator :
                   SameLogin(contributors[k], org_data[i].user) =>
                       <<"warning", "contributor_not_found", contributors[k]>> \notin Range(log)

AuthorMissing ==
    /\ owning_team = None
    /\ commit_list # <<>>
    /\ OldestCommit # None
    /\ OldestCommit \notin Keys(org_data)

\* C3: in inferred mode, when the oldest commit's author is not in the org
\* data, the run logs a warning and ends there: no contributor is classified,
\* no pull request or issue is pulled, and the writer is never called.
C3_MissingAuthorEndsTheRun ==
    (AuthorMissing /\ pc \notin {"commits", "team"}) =>
        /\ pc = "exit_author_not_in_org"
        /\ <<"warning", "original_commit_author_not_found", OldestCommit>> \in Range(log)
        /\ contributors_iterator = 0
        /\ all_contributors = <<>>
        /\ innersource_contributors = <<>>
        /\ next_calls = [pulls |-> 0, issues |-> 0]
        /\ pull_log = [pulls |-> <<>>, issues |-> <<>>]
        /\ written = <<>>
        /\ evaluated = 0

C3_Witness ==
    /\ pc = "exit_author_not_in_org"
    /\ Len(log) = 1

\* the contributors analysed so far that are no key of org_data
AbsentContributors ==
    {contributors[k] : k \in {j \in 1..contributors_iterator :
                                  contributors[j] \notin Keys(org_data)}}

C4_ListedWarnedAndNotInnersource(l) ==
    /\ l \in Range(all_contributors)
    /\ <<"warning", "contributor_not_found", l>> \in Range(log)
    /\ Stopped => fault = "GitHubError"
    /\ l \notin Range(innersource_contributors)
    /\ l \notin DOMAIN innersource_contribution_counts
    /\ written # <<>> =>
           /\ l \in Range(Payload.all_contributors)
           /\ l \notin Range(Payload.innersource_contributors)
           /\ l \notin DOMAIN Payload.innersource_contribution_counts

\* C4 as stated: a contributor absent from org data is listed among all
\* contributors and warned about, the run goes on, and the login is in none
\* of the innersource list, the innersource counts and the team counts.
C4_AbsentContributorInNoOutput ==
    \A l \in AbsentContributors :
        /\ C4_ListedWarnedAndNotInnersource(l)
        /\ l \notin DOMAIN team_member_contribution_counts
        /\ written # <<>> => l \notin DOMAIN Payload.team_member_contribution_counts

\* C4 as amended: a contributor absent from org data is listed among all
\* contributors and warned about, the run goes on, and the login is neither
\* in the innersource list nor in the innersource counts; it is in the team
\* counts exactly when it is a member of the team boundary.
C4_AbsentContributorNotInnersource ==
    \A l \in AbsentContributors :
        /\ C4_ListedWarnedAndNotInnersource(l)
        /\ l \in DOMAIN team_member_contribution_counts =>
               l \in Range(team_members_that_own_the_repo)
        /\ written # <<>> =>
               (l \in DOMAIN Payload.team_member_contribution_counts
                    <=> l \in Range(Payload.team_members_that_own_the_repo))

C4_Witness ==
    /\ pc = "done"
    /\ \E l \in AbsentContributors : l \in Range(team_members_that_own_the_repo)
    /\ \E l \in AbsentContributors : l \notin Range(team_members_that_own_the_repo)

C5_Kept(l) ==
    /\ \E i \in 1..Len(org_data) : SameLogin(l, org_data[i].user)
    /\ \A t \in Range(team_members_that_own_the_repo) : ~SameLogin(l, t)
    /\ ~IsSubstring(<<"[", "b", "o", "t", "]">>, l)

\* C5: the innersource contributor list is the contributors, in roster order,
\* that are in the org chart, are not in the team boundary (both up to letter
\* case) and have no "[bot]" in their login; a team member with "[bot]" in
\* its login stays a team member.
C5_InnersourceListIsTheFilter ==
    TeamResolved =>
        /\ innersource_contributors = SelectSeq(all_contributors, C5_Kept)
        /\ written # <<>> =>
               /\ Payload.innersource_contributors = SelectSeq(contributors, C5_Kept)
               /\ Range(team_members_that_own_the_repo)
                      \subseteq DOMAIN Payload.team_member_contribution_counts

\* C6: the ratio handed to the writer is exactly 0, with no division made,
\* when the innersource totals and the team totals sum to 0, and otherwise
\* sum(innersource totals) / (sum(innersource totals) + sum(team totals)).
C6_RatioOfTotals ==
    written # <<>> =>
        LET innersource_sum == SumValues(Payload.innersource_contribution_counts)
            team_sum == SumValues(Payload.team_member_contribution_counts)
            ratio == Payload.innersource_ratio
        IN IF innersource_sum + team_sum = 0
           THEN ratio.num = 0 /\ ~ratio.divided
           ELSE /\ ratio.divided
                /\ ratio.den > 0
                /\ ratio.num * (innersource_sum + team_sum) = innersource_sum * ratio.den

C6_Witness ==
    /\ written # <<>>
    /\ team_members_that_own_the_repo # <<>>
    /\ ~Payload.innersource_ratio.divided

C7_TotalsOf(counts, logins) ==
    /\ DOMAIN counts = Range(logins)
    /\ \A l \in Range(logins) :
           counts[l] = CountIn(commit_author_counts, l) + CountIn(pr_author_counts, l)
                           + CountIn(issue_author_counts, l)

C7_Totals ==
    /\ pc \in {"team_counts", "ratio", "write", "evaluate", "done"} =>
           C7_TotalsOf(innersource_contribution_counts, innersource_contributors)
    /\ pc \in {"ratio", "write", "evaluate", "done"} =>
           C7_TotalsOf(team_member_contribution_counts, team_members_that_own_the_repo)
    /\ written # <<>> =>
           /\ Payload.innersource_contribution_counts = innersource_contribution_counts
           /\ Payload.team_member_contribution_counts = team_member_contribution_counts

C7_Scenario(org) ==
    /\ org_data = org
    /\ commit_list = <<x, x, m, a, a, a>>
    /\ contributors = <<a, m, x>>
    /\ pulls = <<>>
    /\ issues = <<>>
    /\ written # <<>>

C7_ScenarioResult ==
    /\ DOMAIN Payload.innersource_contribution_counts = {x}
    /\ Payload.innersource_contribution_counts[x] = 2
    /\ DOMAIN Payload.team_member_contribution_counts = {a, m}
    /\ Payload.team_member_contribution_counts[a] = 3
    /\ Payload.team_member_contribution_counts[m] = 1
    /\ Payload.innersource_ratio.num * 6 = 2 * Payload.innersource_ratio.den

\* C7 as stated: every innersource contributor and every team member has one
\* map entry, its commit + pull-request + issue count (0 where a map has no
\* entry); org data {a->m, m->d}, oldest author a, contributors [a, m, x] and
\* commit counts {a:3, m:1, x:2} give innersource {x:2}, team {a:3, m:1}, 2/6.
C7_TotalsAndScenario ==
    /\ C7_Totals
    /\ C7_Scenario(<<Entry(a, m), Entry(m, d)>>) => C7_ScenarioResult

\* C7 as amended: the same totals; the scenario gives innersource {x:2}, team
\* {a:3, m:1} and ratio 2/6 when x is an org-data key as well ({a->m, m->d,
\* x->y}); with org data {a->m, m->d} x is left out and the ratio is 0/4.
C7_TotalsAndScenarioWithXInOrgData ==
    /\ C7_Totals
    /\ C7_Scenario(<<Entry(a, m), Entry(m, d), Entry(x, y)>>) => C7_ScenarioResult
    /\ C7_Scenario(<<Entry(a, m), Entry(m, d)>>) =>
           /\ Payload.innersource_contribution_counts = <<>>
           /\ Payload.innersource_ratio.num = 0
           /\ Payload.innersource_ratio.den = 4

C7_Witness ==
    /\ C7_Scenario(<<Entry(a, m), Entry(m, d), Entry(x, y)>>)
    /\ pc = "done"

\* one pass over the items: the number of items of every identified author
CountsOf(items) ==
    [l \in Range(items) \ {None} |-> Occurrences(items, l)]

\* C8: for every finite stream and chunk size >= 1 the count map of chunked
\* ingestion is the count map of one pass over the same items: every item
\* with an author is counted once, none dropped or counted twice.
C8_ChunkedEqualsUnchunked ==
    /\ pc = "pulls" => pr_author_counts = CountsOf(SubSeq(pulls, 1, pulls_iterator))
    /\ PullsConsumed => pr_author_counts = CountsOf(pulls) /\ total_prs = Len(pulls)
    /\ pc = "issues" => issue_author_counts = CountsOf(SubSeq(issues, 1, issues_iterator))
    /\ IssuesConsumed => issue_author_counts = CountsOf(issues) /\ total_issues = Len(issues)

C8_Witness ==
    /\ pc = "done"
    /\ Len(pulls) > chunk_size
    /\ Len(pulls) % chunk_size # 0
    /\ None \in Range(pulls)
    /\ \E l \in DOMAIN pr_author_counts : pr_author_counts[l] > 1

CeilDiv(n, c) ==
    (n + c - 1) \div c

\* all pulls before the last are full, and there are n \div c + 1 of them
C9_StopsAtShortChunk(sizes, n) ==
    /\ \A i \in 1..(Len(sizes) - 1) : sizes[i] = chunk_size
    /\ Len(sizes) = (n \div chunk_size) + 1

\* the pulls are the full chunks, the short chunk if any, and an empty one
C9_StopsAtEmptyChunk(sizes, calls, n) ==
    /\ Len(sizes) = CeilDiv(n, chunk_size) + 1
    /\ sizes[Len(sizes)] = 0
    /\ \A i \in 1..(Len(sizes) - 1) : sizes[i] > 0
    /\ \A i \in 1..(Len(sizes) - 2) : sizes[i] = chunk_size
    /\ calls = n + (IF n % chunk_size = 0 THEN 1 ELSE 2)

\* C9 as stated: chunked ingestion stops at the first chunk pull that yields
\* fewer items than the chunk size, so n items with chunk size c take
\* n \div c + 1 pulls.
C9_PullsUntilShortChunk ==
    /\ PullsConsumed => C9_StopsAtShortChunk(pull_log.pulls, Len(pulls))
    /\ IssuesConsumed => C9_StopsAtShortChunk(pull_log.issues, Len(issues))

\* C9 as amended: chunked ingestion stops at the first chunk pull that yields
\* no item; a short chunk is reduced and followed by one more pull, which is
\* empty, so n items with chunk size c take ceil(n/c) + 1 pulls and, with the
\* calls that meet the end of the stream, n + 1 next() calls when c divides n
\* and n + 2 otherwise; nothing is pulled after the empty chunk.
C9_PullsUntilEmptyChunk ==
    /\ PullsConsumed =>
           C9_StopsAtEmptyChunk(pull_log.pulls, next_calls.pulls, Len(pulls))
    /\ IssuesConsumed =>
           C9_StopsAtEmptyChunk(pull_log.issues, next_calls.issues, Len(issues))

C9_Witness ==
    /\ pc = "done"
    /\ chunk_size = 2
    /\ pull_log.pulls = <<2, 2, 1, 0>>

\* C10: with a non-empty explicit roster the team boundary is the configured
\* list as it is, also with one entry: no org-chart traversal, no read of the
\* oldest commit, author and manager None, and the flag handed to the writer
\* is true; in inferred mode the flag is false.
C10_ExplicitRosterVerbatim ==
    /\ (owning_team # <<>> /\ TeamResolved) =>
           /\ team_members_that_own_the_repo = owning_team
           /\ ~org_traversed
           /\ ~oldest_commit_read
           /\ original_commit_author = None
           /\ original_commit_author_manager = None
           /\ Range(innersource_contributors) \cap Range(owning_team) = {}
    /\ (owning_team # <<>> /\ written # <<>>) =>
           /\ Payload.team_members_that_own_the_repo = owning_team
           /\ DOMAIN Payload.team_member_contribution_counts = Range(owning_team)
           /\ Payload.original_commit_author = None
           /\ Payload.original_commit_author_manager = None
           /\ Payload.team_ownership_explicitly_specified
    /\ owning_team # <<>> =>
           /\ pc # "exit_author_not_in_org"
           /\ fault # "IndexError"
           /\ fault # "AttributeError"
    /\ (owning_team = <<>> /\ written # <<>>) =>
           ~Payload.team_ownership_explicitly_specified

C10_Witness ==
    /\ pc = "done"
    /\ Len(owning_team) = 1
    /\ owning_team[1] \in Range(contributors)

\* the org data has been loaded and tested
OrgDataLoaded ==
    pc \notin {"auth", "repository", "org_data", "exit_no_connection",
               "exit_no_repository", "get_env_vars", "evaluate_markdown_file_size"}

\* C11: org data holding two keys that differ only by letter case makes the
\* construction of the org chart fail with a ValueError, and the run aborts
\* there: no boundary traversal, no classification, no report.
C11_DuplicateKeysAbortTheRun ==
    (org_file_exists /\ ~NoCaseCollisions(org_file) /\ OrgDataLoaded) =>
        /\ pc = "crashed"
        /\ fault = "ValueError"
        /\ ~oldest_commit_read
        /\ ~org_traversed
        /\ contributors_iterator = 0
        /\ written = <<>>

\* the pieces of s between the occurrences of c
RECURSIVE Pieces(_, _, _)
Pieces(s, c, piece) ==
    IF s = <<>> THEN <<piece>>
    ELSE IF Head(s) = c THEN <<piece>> \o Pieces(Tail(s), c, <<>>)
    ELSE Pieces(Tail(s), c, Append(piece, Head(s)))

RECURSIVE Trimmed(_)
Trimmed(pieces) ==
    IF pieces = <<>> THEN <<>>
    ELSE <<Strip(Head(pieces))>> \o Trimmed(Tail(pieces))

NonEmpty(piece) ==
    piece # <<>>

\* the roster a value of OWNING_TEAM stands for; None when no name is left
RosterOf(value) ==
    SelectSeq(Trimmed(Pieces(value, ",", <<>>)), NonEmpty)

\* C12: the EnvVars that get_env_vars returns carries owning_team: the names
\* of OWNING_TEAM between its commas, trimmed, the empty ones dropped, in
\* their order, and None when the variable is unset, empty or holds only
\* whitespace and commas.
C12_OwningTeamParsed ==
    call = "returned" =>
        /\ "owning_team" \in DOMAIN env_vars
        /\ env_vars.owning_team = RosterOf(Getenv(environ, "OWNING_TEAM", <<>>))

\* the run resolved its boundary from org data
InferredBoundaryResolved ==
    owning_team = <<>> /\ TeamResolved

\* C13: in inferred mode every member of the boundary is the author, the
\* author's manager M or a user whose manager chain in org data reaches M
\* or the author; the manager of M is a member only when org data makes it
\* such a user; no username is in the boundary twice.
C13_InferredBoundaryIsSound ==
    InferredBoundaryResolved =>
        LET M == original_commit_author_manager
            team == team_members_that_own_the_repo
            allowed == ReportsClosure(org_data, {original_commit_author, M})
        IN /\ Range(team) \subseteq allowed
           /\ \A i \in 1..Len(org_data) :
                  (org_data[i].user = M /\ org_data[i].manager \in Range(team)) =>
                      org_data[i].manager \in allowed
           /\ \A i, j \in 1..Len(team) : team[i] = team[j] => i = j

C13_Witness ==
    /\ InferredBoundaryResolved
    /\ Len(team_members_that_own_the_repo) >= 3
    /\ \E i \in 1..Len(org_data) :
           /\ org_data[i].user = original_commit_author_manager
           /\ org_data[i].manager \notin Range(team_members_that_own_the_repo)
    /\ \E i \in 1..Len(org_data) :
           /\ org_data[i].manager = original_commit_author
           /\ org_data[i].user \in Range(team_members_that_own_the_repo)

\* the commit counts have been taken
CommitsCounted ==
    pc \in {"pulls", "pulls_count", "issues", "issues_count", "innersource_counts",
            "team_counts", "ratio", "write", "evaluate", "done"}

\* C14: an item without an identifiable author is skipped and never makes
\* the run fail: no commit, pull request or issue without author is counted
\* under any key, every other item is counted, and no run ends on the
\* missing author of a commit, the oldest commit read as the seed included.
C14_UnattributableItemsAreSkipped ==
    /\ fault # "AttributeError"
    /\ None \notin DOMAIN commit_author_counts
    /\ None \notin DOMAIN pr_author_counts
    /\ None \notin DOMAIN issue_author_counts
    /\ CommitsCounted =>
           \A l \in Range(commit_list) \ {None} :
               CountIn(commit_author_counts, l) = Occurrences(commit_list, l)

\* org-data.json is missing, or it loads as an empty object
OrgDataAbsent ==
    ~org_file_exists \/ org_file = <<>>

\* C15: without org data the run logs that InnerSource collaboration cannot
\* be measured and ends there: the commits are not listed, no contributor is
\* read, next() is called on no stream, and no report is written or split.
C15_NoOrgDataEndsTheRun ==
    (OrgDataAbsent /\ OrgDataLoaded) =>
        /\ pc = "exit_no_org_data"
        /\ <<"error", "no_org_data", None>> \in Range(log)
        /\ commit_list = <<>>
        /\ contributors_iterator = 0
        /\ all_contributors = <<>>
        /\ next_calls = [pulls |-> 0, issues |-> 0]
        /\ written = <<>>
        /\ evaluated = 0

C15_Witness ==
    /\ pc = "exit_no_org_data"
    /\ org_file_exists
    /\ org_file = <<>>
    /\ commits # <<>>
    /\ contributors # <<>>

\* C16: a fetch of commits, contributors, pull requests or issues that fails
\* with anything but the end of the stream leaves main as an exception: the
\* run stops there, and no report is written or split, whatever had been
\* counted before.
C16_FetchFailureAbortsTheRun ==
    fault = "GitHubError" =>
        /\ pc = "crashed"
        /\ written = <<>>
        /\ evaluated = 0
        /\ innersource_ratio = None

C16_Witness ==
    /\ fault = "GitHubError"
    /\ pc = "crashed"
    /\ total_prs > 0
    /\ pr_author_counts # <<>>
    /\ issues_iterator > 0

NonNegative(counts) ==
    \A l \in DOMAIN counts : counts[l] \in Nat

\* the ratio has been computed
RatioComputed ==
    pc \in {"write", "evaluate", "done"}

\* C17: in a run that reaches the ratio every per-author count is a natural
\* number, 0 <= sum(innersource totals) <= sum(innersource totals) +
\* sum(team totals), and the ratio, when the division is made, is the
\* fraction of the two: a value in [0, 1].
C17_RatioIsAFraction ==
    RatioComputed =>
        LET is == SumValues(innersource_contribution_counts)
            team == SumValues(team_member_contribution_counts)
        IN /\ NonNegative(commit_author_counts)
           /\ NonNegative(pr_author_counts)
           /\ NonNegative(issue_author_counts)
           /\ NonNegative(innersource_contribution_counts)
           /\ NonNegative(team_member_contribution_counts)
           /\ 0 <= is /\ is <= is + team
           /\ 0 <= innersource_ratio.num
           /\ innersource_ratio.num <= innersource_ratio.den
           /\ innersource_ratio.divided => innersource_ratio.den > 0

C17_Witness ==
    /\ RatioComputed
    /\ innersource_ratio.divided
    /\ 0 < innersource_ratio.num
    /\ innersource_ratio.num < innersource_ratio.den

\* the chunk size the claim gives for each value of CHUNK_SIZE
ChunkSizeCases ==
    {<<Unset, 100>>, <<<<>>, 100>>, <<<<"a", "b", "c">>, 100>>, <<<<"1", ".", "5">>, 100>>,
     <<<<"-", "3">>, 10>>, <<<<"0">>, 10>>, <<<<"5">>, 10>>, <<<<"9">>, 10>>,
     <<<<" ", "7", " ">>, 10>>, <<<<"1", "0">>, 10>>, <<<<"1", "_", "0">>, 10>>,
     <<<<"1", "1">>, 11>>, <<<<"+", "1", "2">>, 12>>, <<<<"2", "0", "0">>, 200>>}

\* C18: the chunk size of a returned EnvVars is an integer of at least
\* MIN_CHUNK_SIZE, hence at least 1: 100 for CHUNK_SIZE unset, 10 for an
\* integer below 10 (zero and the negatives with it), the integer itself
\* from 10 on, and 100 for a value that is no integer.
C18_ChunkSizeAtLeastMinimum ==
    call = "returned" =>
        /\ env_vars.chunk_size \in Nat
        /\ env_vars.chunk_size >= MIN_CHUNK_SIZE
        /\ env_vars.chunk_size >= 1
        /\ MIN_CHUNK_SIZE = 10
        /\ \E case \in ChunkSizeCases :
               /\ case[1] = Getenv(environ, "CHUNK_SIZE", Unset)
               /\ case[2] = env_vars.chunk_size

C18_Witness ==
    /\ call = "returned"
    /\ Getenv(environ, "CHUNK_SIZE", Unset) = <<"-", "3">>
    /\ env_vars.chunk_size = MIN_CHUNK_SIZE

\* the variable is in the environment with a value that is not empty
IsSet(name) ==
    Getenv(environ, name, <<>>) # <<>>

AppCredentialNames ==
    {"GH_APP_ID", "GH_APP_PRIVATE_KEY", "GH_APP_INSTALLATION_ID"}

\* some, not all, of the three GitHub App credentials are set
AppCredentialsPartlySet ==
    /\ \E name \in AppCredentialNames : IsSet(name)
    /\ \E name \in AppCredentialNames : ~IsSet(name)

\* C19: get_env_vars returns an EnvVars only for an environment that holds
\* a token or a complete set of GitHub App credentials, and a REPOSITORY
\* with a "/" in it, whose parts before and after the first "/" are owner
\* and repo; every other environment ends in a ValueError.
C19_InvalidEnvironmentRaises ==
    /\ call = "raised" => raised[1] = "ValueError"
    /\ call = "returned" =>
           LET repository == Getenv(environ, "REPOSITORY", <<>>)
           IN /\ IsSet("GH_TOKEN") \/ \E name \in AppCredentialNames : IsSet(name)
              /\ ~IsSet("GH_TOKEN") => ~AppCredentialsPartlySet
              /\ Contains(repository, "/")
              /\ ~Contains(env_vars.owner, "/")
              /\ env_vars.owner \o <<"/">> \o env_vars.repo = repository

\* evaluate_markdown_file_size has ended, by return or by exception
EvaluateEnded ==
    call \in {"returned", "raised"} /\ pc = "evaluate_markdown_file_size"

\* C20: for any output file name, after evaluate_markdown_file_size on a
\* report of more than 65,535 characters the whole report is at
\* {stem}_full.md, the output file name holds the first part of it (a
\* prefix of at most 65,535 characters) and {stem}_0.md is gone; on a
\* report within the limit the files are as they were.
C20_SplitLeavesFirstPartAndFull ==
    EvaluateEnded =>
        LET name == OutputFileName(output_file_name)
            stem == Stem(name)
            original == files_before[name]
        IN IF Length(original) > 65535
           THEN /\ call = "returned"
                /\ FullName(stem) \in DOMAIN files
                /\ files[FullName(stem)] = original
                /\ name \in DOMAIN files
                /\ files[name] = Text(original.text, 0, 65535)
                /\ FirstPartName(stem) \notin DOMAIN files
           ELSE /\ call = "returned"
                /\ files = files_before

\* write_to_markdown has ended on a report with repository data
ReportEnded ==
    /\ pc = "write_to_markdown"
    /\ call \in {"returned", "raised"}
    /\ writer_args.repo_data # None

\* the lines of the report that speak of the ownership of the repository
OwnershipLines ==
    {i \in 1..Len(report_file) :
         \E piece \in {"### Team ownership is explicitly specified",
                       "### Original commit author information not available",
                       "### Original Commit Author: "} :
             report_file[i][1] = piece}

MentionsManager ==
    \E i \in 1..Len(report_file) : \E k \in 1..Len(report_file[i]) :
        report_file[i][k] = " (Manager: "

\* C21: the report has exactly one ownership header: the explicit-ownership
\* line for the flag true and no author; the not-available line for the flag
\* false and no author; "Original Commit Author: A" without manager text for
\* an author with an empty manager; "Original Commit Author: A (Manager: M)"
\* for both set.
C21_OneOwnershipHeader ==
    ReportEnded =>
        LET author == writer_args.original_commit_author
            manager == writer_args.original_commit_author_manager
            flag == /\ "team_ownership_explicitly_specified" \in writer_args.keywords
                    /\ writer_args.team_ownership_explicitly_specified
        IN /\ call = "returned"
           /\ Cardinality(OwnershipLines) = 1
           /\ \A i \in OwnershipLines :
                  report_file[i] =
                      IF author = <<>>
                      THEN IF flag
                           THEN <<"### Team ownership is explicitly specified">>
                           ELSE <<"### Original commit author information not available">>
                      ELSE IF manager = <<>>
                           THEN <<"### Original Commit Author: ", author>>
                           ELSE <<"### Original Commit Author: ", author,
                                  " (Manager: ", manager, ")">>
           /\ (author = <<>> \/ manager = <<>>) => ~MentionsManager

\* write_to_markdown has returned a full report
ReportWritten ==
    /\ pc = "write_to_markdown"
    /\ call = "returned"
    /\ writer_args.repo_data # None

\* the lines after the heading of the team counts
TeamCountLines ==
    LET heading == CHOOSE i \in 1..Len(report_file) :
                       report_file[i] = <<"## Team Member Contribution Counts:">>
    IN SubSeq(report_file, heading + 1, Len(report_file))

\* C22: the team counts handed to the writer keep an entry for every team
\* member, the ones with count 0 too; the report has one line for each
\* entry with a positive count and none for a zero count, the line "No team
\* member contributions found." alone when there are entries and all are 0,
\* and "No team member contribution counts available." alone when there is
\* no entry.
C22_ZeroCountsKeptButNotPrinted ==
    ReportWritten =>
        LET items == writer_args.team_member_contribution_counts
            positive == {i \in 1..Len(items) : items[i][2] > 0}
        IN /\ {items[i][1] : i \in 1..Len(items)} =
                  Range(writer_args.team_members_that_own_the_repo)
           /\ \A i \in 1..Len(items) :
                  (\E k \in 1..Len(TeamCountLines) :
                       TeamCountLines[k] = <<"- ", items[i][1], ": ", items[i][2],
                                             " contributions">>)
                      <=> i \in positive
           /\ Len(TeamCountLines) = IF positive = {} THEN 1 ELSE Cardinality(positive)
           /\ (items # <<>> /\ positive = {}) =>
                  TeamCountLines = << <<"No team member contributions found.">> >>
           /\ items = <<>> =>
                  TeamCountLines = << <<"No team member contribution counts available.">> >>

C22_Witness ==
    /\ ReportWritten
    /\ \E i, j \in 1..Len(writer_args.team_member_contribution_counts) :
           /\ writer_args.team_member_contribution_counts[i][2] = 0
           /\ writer_args.team_member_contribution_counts[j][2] > 0

\* the contributor loop has ended
Classified ==
    pc \in {"pulls", "pulls_count", "issues", "issues_count", "innersource_counts",
            "team_counts", "ratio", "write", "evaluate", "done"}

\* C23: once the contributors are classified no username is both an
\* innersource contributor and a member of the team boundary; the keys of
\* the innersource counts and of the team counts are disjoint, in the
\* payload as well, so no author's total is on both sides of the ratio.
C23_InnersourceAndTeamDisjoint ==
    /\ Range(innersource_contributors) \cap Range(team_members_that_own_the_repo) = {}
    /\ DOMAIN innersource_contribution_counts \cap DOMAIN team_member_contribution_counts = {}
    /\ written # <<>> =>
           DOMAIN Payload.innersource_contribution_counts
               \cap DOMAIN Payload.team_member_contribution_counts = {}

C23_Witness ==
    /\ pc = "done"
    /\ SumValues(innersource_contribution_counts) > 0
    /\ SumValues(team_member_contribution_counts) > 0
    /\ Range(all_contributors) \cap Range(team_members_that_own_the_repo) # {}

\* what a run has done, read from what it has left behind
OrgChartBuilt ==
    org_data # <<>>

CommitsListed ==
    commit_list # <<>>

BoundaryBegun ==
    oldest_commit_read \/ org_traversed \/ team_members_that_own_the_repo # <<>>

BoundaryResolved ==
    team_members_that_own_the_repo # <<>>

ClassificationBegun ==
    contributors_iterator > 0

ClassificationEnded ==
    contributors_iterator = Len(contributors) /\ Classified

PullsBegun ==
    next_calls.pulls > 0

PullsEnded ==
    /\ pulls_iterator = Len(pulls)
    /\ total_prs = Len(pulls)
    /\ pull_log.pulls # <<>>
    /\ pull_log.pulls[Len(pull_log.pulls)] = 0

IssuesBegun ==
    next_calls.issues > 0

IssuesEnded ==
    /\ issues_iterator = Len(issues)
    /\ total_issues = Len(issues)
    /\ pull_log.issues # <<>>
    /\ pull_log.issues[Len(pull_log.issues)] = 0

\* ingestion taken from the count of the commits on, the reading most
\* favourable to the stated order: the commits are listed before that
IngestionBegun ==
    commit_author_counts # <<>> \/ PullsBegun \/ IssuesBegun

RatioComputedOnce ==
    innersource_ratio # None

\* C24 as stated: org-chart build, boundary resolution, ingestion of
\* commits, pull requests and issues, classification, ratio: no stage
\* begins before the one in front of it has ended.
C24_StagesInStatedOrder ==
    /\ BoundaryBegun => OrgChartBuilt
    /\ IngestionBegun => BoundaryResolved
    /\ PullsBegun => CommitsListed
    /\ IssuesBegun => PullsEnded
    /\ ClassificationBegun => IssuesEnded
    /\ RatioComputedOnce => ClassificationEnded

\* C24 amended: the order of main is org-chart build, listing of the
\* commits, boundary resolution, classification of the contributors, count
\* of the commits, pull requests, issues, ratio.
C24_StagesInOrderOfMain ==
    /\ CommitsListed => OrgChartBuilt
    /\ BoundaryBegun => OrgChartBuilt /\ pc \notin {"org_data", "commits"}
    /\ ClassificationBegun => BoundaryResolved
    /\ commit_author_counts # <<>> => contributors_iterator = Len(contributors)
    /\ PullsBegun =>
           /\ contributors_iterator = Len(contributors)
           /\ commit_author_counts = CountAuthors(commit_list, <<>>)
    /\ IssuesBegun => PullsEnded
    /\ RatioComputedOnce => IssuesEnded /\ ClassificationEnded

C24_Witness ==
    /\ pc = "done"
    /\ owning_team = <<>>
    /\ Len(contributors) > 1
    /\ commit_author_counts # <<>>
    /\ total_prs > 0
    /\ total_issues > 0

\* the items the iterator has yielded and the loop has not reduced yet
Held(stream, yielded, reduced) ==
    SubSeq(stream, reduced + 1, yielded)

\* C25: while pull requests and issues are ingested the chunk never holds
\* more items than the chunk size, and when the next chunk is pulled every
\* item yielded so far has been reduced into the count map: the items held
\* are those of the current chunk alone.
C25_ChunkBoundsItemsHeld ==
    /\ Len(chunk) <= chunk_size
    /\ pc = "pulls" =>
           /\ total_prs = pulls_iterator
           /\ pr_author_counts = CountAuthors(SubSeq(pulls, 1, pulls_iterator), <<>>)
    /\ pc = "pulls_count" =>
           /\ chunk = Held(pulls, pulls_iterator, total_prs)
           /\ pr_author_counts = CountAuthors(SubSeq(pulls, 1, total_prs), <<>>)
    /\ pc = "issues" =>
           /\ total_issues = issues_iterator
           /\ issue_author_counts = CountAuthors(SubSeq(issues, 1, issues_iterator), <<>>)
    /\ pc = "issues_count" =>
           /\ chunk = Held(issues, issues_iterator, total_issues)
           /\ issue_author_counts = CountAuthors(SubSeq(issues, 1, total_issues), <<>>)

C25_Witness ==
    /\ pc = "issues_count"
    /\ Len(chunk) = chunk_size
    /\ total_issues >= chunk_size
    /\ Len(issues) > chunk_size
    /\ total_prs > 0

InPullLoop ==
    pc \in {"pulls", "pulls_count"}

InIssueLoop ==
    pc \in {"issues", "issues_count"}

ReportWritingReached ==
    written # <<>>

\* C26: with finite streams and a chunk size of at least 1 each chunk loop
\* is left for good, and a run whose team boundary has been resolved reaches the
\* writing of the report, unless a fetch fails on the way.
C26_LoopsEndAndReportIsReached ==
    /\ <>[](~InPullLoop /\ ~InIssueLoop)
    /\ BoundaryResolved ~> (ReportWritingReached \/ fault = "GitHubError")

C26_Witness ==
    /\ ReportWritingReached
    /\ fault = <<>>
    /\ Len(pulls) > chunk_size
    /\ Len(pull_log.pulls) > 2
    /\ pull_log.issues # <<>>

EarlyExit ==
    pc \in {"exit_no_connection", "exit_no_repository", "exit_no_org_data",
            "exit_author_not_in_org"}

\* C27: write_to_markdown is called at most once, and only when the commits
\* have been listed in full, the pull-request and issue streams have been
\* pulled to their empty chunk and the ratio is computed;
\* evaluate_markdown_file_size is called at most once and only after it; on
\* an early exit neither is called.
C27_ReportOnceAfterEverything ==
    /\ Len(written) <= 1
    /\ evaluated <= Len(written)
    /\ written # <<>> =>
           /\ commit_list = commits
           /\ PullsEnded
           /\ IssuesEnded
           /\ innersource_ratio # None
           /\ written[1].innersource_ratio = innersource_ratio
    /\ pc = "write" => written = <<>>
    /\ EarlyExit => written = <<>> /\ evaluated = 0
    /\ pc = "crashed" => written = <<>> /\ evaluated = 0

C27_Witness ==
    /\ pc = "done"
    /\ Len(written) = 1
    /\ evaluated = 1
    /\ Len(pulls) > chunk_size
    /\ commit_list # <<>>
    /\ total_prs = Len(pulls)

EmptyCommitStreamInferred ==
    /\ HasOrgData(org_data)
    /\ ~ExplicitlySpecified(owning_team)
    /\ commits = <<>>

\* C28: with org data present and no roster configured, a repository
\* without commits does not make the run fail: no IndexError is raised and
\* the oldest commit is read only from a commit list that is not empty.
C28_EmptyCommitStreamDoesNotFail ==
    /\ EmptyCommitStreamInferred => fault # "IndexError"
    /\ oldest_commit_read => commit_list # <<>>

HasDuplicate(roster) ==
    \E i, j \in DOMAIN roster : i # j /\ roster[i] = roster[j]

TeamCountsDone ==
    pc \in {"ratio", "write", "evaluate", "done"}

\* the activity of each distinct name of the roster, taken once
OnceEach(roster) ==
    [l \in Range(roster) |->
        TotalFor(l, commit_author_counts, pr_author_counts, issue_author_counts)]

\* C29: with a configured roster, a username written more than once in it
\* has one entry in the team-count map, holding its activity once, and the
\* denominator of the ratio takes that activity once.
C29_DuplicateRosterNamesCountedOnce ==
    (ExplicitlySpecified(owning_team) /\ TeamCountsDone) =>
        /\ DOMAIN team_member_contribution_counts = Range(owning_team)
        /\ \A l \in Range(owning_team) :
               team_member_contribution_counts[l] = OnceEach(owning_team)[l]
        /\ innersource_ratio # None =>
               /\ innersource_ratio.divided =>
                      innersource_ratio.den =
                          SumValues(innersource_contribution_counts)
                              + SumValues(OnceEach(owning_team))
               /\ ~innersource_ratio.divided =>
                      SumValues(OnceEach(owning_team)) = 0

C29_Witness ==
    /\ pc = "done"
    /\ HasDuplicate(owning_team)
    /\ \E l \in Range(owning_team) :
           /\ Occurrences(owning_team, l) > 1
           /\ team_member_contribution_counts[l] > 0
    /\ innersource_ratio.divided

\* C30: after any calls of setup_logging with any levels the logger has
\* exactly one handler, every call has returned the one logger, and a call
\* on a configured logger has left its handlers and its level as they were.
C30_OneHandlerWhateverTheCalls ==
    /\ setup_calls # <<>> => Len(logger.handlers) = 1
    /\ \A i \in DOMAIN setup_calls :
           /\ setup_calls[i].returned = LOGGER_NAME
           /\ setup_calls[i].before.handlers # <<>> =>
                  /\ setup_calls[i].after.handlers = setup_calls[i].before.handlers
                  /\ setup_calls[i].after.level = setup_calls[i].before.level

====
